---- MODULE Spec2Model ----
(***************************************************************************)
(* Model of the transaction store of the eTrade dashboard                  *)
(* (src/database.py for SQLite, src/database_pg.py for PostgreSQL), of the *)
(* routes of src/app.py that call it and of import_csv_to_database in      *)
(* src/csv_parser.py.                                                      *)
(*                                                                         *)
(* Conventions.                                                            *)
(*  - A text value is a sequence of one-character strings.                 *)
(*  - A nullable value is a set with at most one element: {} is NULL/None, *)
(*    {v} is the value v.                                                  *)
(*  - An amount is an integer number of thousandths of the currency unit,  *)
(*    so that the DECIMAL(12, 2) column of PostgreSQL has something to     *)
(*    round.                                                               *)
(***************************************************************************)
EXTENDS Integers, Sequences, FiniteSets, TLC

VARIABLES
    backend,          \* "pg" or "sqlite": config.USE_POSTGRES
    transactions,     \* committed rows of table transactions
    next_id,          \* next value of the id sequence of transactions
    person_mappings,  \* committed rows of table person_mappings
    next_mapping_id,  \* next value of the id sequence of person_mappings
    conn,             \* per caller: the open connection of a concurrent insert
    users,            \* committed rows of table users (PostgreSQL only)
    jwks_cache,       \* auth_middleware._jwks_cache
    now,              \* the year and month datetime.now() falls in
    environ,          \* os.environ as the modules read it when imported
    last              \* the last call and what it returned

vars == <<backend, transactions, next_id, person_mappings, next_mapping_id, conn,
          users, jwks_cache, now, environ, last>>

(***************************************************************************)
(* Bounds                                                                  *)
(***************************************************************************)
MaxBatch == 2        \* longest batch handed to insert_transactions
MaxId == 3           \* last id the transactions sequence hands out

Null == {}
Some(v) == {v}
TheValue(o) == CHOOSE v \in o : TRUE

Backends == {"pg", "sqlite"}

\* A process that has served no request: no row in users, no key set
\* cached, the clock in its first month, and an environment that sets none
\* of CLERK_JWKS_URL, FLASK_DEBUG and VERCEL.
Started ==
    /\ users = {}
    /\ jwks_cache = Null
    /\ now = [year |-> 2024, month |-> 11]
    /\ environ = [CLERK_JWKS_URL |-> FALSE, FLASK_DEBUG |-> FALSE, VERCEL |-> FALSE]

SeqsUpTo(S, n) == UNION {[1..k -> S] : k \in 0..n}

Abs(n) == IF n < 0 THEN -n ELSE n

(***************************************************************************)
(* Column types                                                            *)
(***************************************************************************)
\* amount DECIMAL(12, 2) rounds half away from zero to two decimals;
\* amount REAL keeps the float it is given.
RoundCents(a) == (IF a < 0 THEN -1 ELSE 1) * (((Abs(a) + 5) \div 10) * 10)

StoreAmount(b, a) == IF b = "pg" THEN RoundCents(a) ELSE a

StoreBalance(b, o) == IF o = Null THEN Null ELSE Some(StoreAmount(b, TheValue(o)))

\* UNIQUE(transaction_date, description, amount)
Triple(r) == <<r.transaction_date, r.description, r.amount>>

NoUniqueConstraint(rows, r) == FALSE

UniqueConflict(rows, r) == \E s \in rows : s.id # r.id /\ Triple(s) = Triple(r)

(***************************************************************************)
(* Inputs of the store model                                               *)
(***************************************************************************)
Dates == {20240105, 20240220}
Descs == {<<"a", "b">>, <<"A", "c">>}
Amounts == {1000, 1004}

\* A normalized candidate as _process_dataframe builds it.
Candidates ==
    {[transaction_date |-> d, description |-> x, amount |-> a, balance |-> Null,
      category |-> Some(IF a > 0 THEN <<"I", "n", "c">> ELSE <<"F", "e", "e">>),
      source |-> Some(<<"O">>), csv_hash |-> Some(<<"h", "1">>)] :
        d \in {20240105}, x \in Descs, a \in Amounts}

Batches == SeqsUpTo(Candidates, MaxBatch)

(***************************************************************************)
(* insert_transactions                                                     *)
(***************************************************************************)
\* The row an INSERT of candidate txn builds, with the id the sequence gives.
NewRow(b, txn, id) ==
    [id |-> id,
     transaction_date |-> txn.transaction_date,
     description |-> txn.description,
     amount |-> StoreAmount(b, txn.amount),
     balance |-> StoreBalance(b, txn.balance),
     category |-> txn.category,
     source |-> txn.source,
     notes |-> Null,
     csv_hash |-> txn.csv_hash]

\* The id sequence after an INSERT that failed: SERIAL has drawn nextval
\* before the unique index is checked and a rollback does not return it;
\* AUTOINCREMENT assigns the id only to a row that is inserted.
AfterFailedInsertId(b, nid) == IF b = "pg" THEN nid + 1 ELSE nid

\* The except branch; st is [rows, nid, inserted, skipped] and begin the
\* rows at the start of the call.
\* pg: ROLLBACK TO SAVEPOINT txn_insert_i restores the rows as they were at
\* the savepoint, which holds rows 1..i-1 of the call.
\* sqlite: the failed statement alone is undone.
OnConflictRollsBackAll(b, begin, st) ==
    [rows |-> begin, nid |-> AfterFailedInsertId(b, st.nid),
     inserted |-> st.inserted, skipped |-> st.skipped + 1]

OnConflict(b, begin, st) ==
    [rows |-> st.rows, nid |-> AfterFailedInsertId(b, st.nid),
     inserted |-> st.inserted, skipped |-> st.skipped + 1]

\* The try branch when the INSERT went through.
OnInsertedCountsTwice(st, r) ==
    [rows |-> st.rows \cup {r}, nid |-> st.nid + 1,
     inserted |-> st.inserted + 1, skipped |-> st.skipped + 1]

OnInserted(st, r) ==
    [rows |-> st.rows \cup {r}, nid |-> st.nid + 1,
     inserted |-> st.inserted + 1, skipped |-> st.skipped]

\* The loop over the batch.
RECURSIVE InsertLoop(_, _, _, _, _)
InsertLoop(b, begin, batch, i, st) ==
    IF i > Len(batch) THEN st
    ELSE LET r == NewRow(b, batch[i], st.nid)
         IN IF UniqueConflict(st.rows, r)
            THEN InsertLoop(b, begin, batch, i + 1, OnConflict(b, begin, st))
            ELSE InsertLoop(b, begin, batch, i + 1, OnInserted(st, r))

InsertResult(b, rows, nid, batch) ==
    InsertLoop(b, rows, batch, 1, [rows |-> rows, nid |-> nid, inserted |-> 0, skipped |-> 0])

InsertTransactions(batch) ==
    /\ next_id + Len(batch) <= MaxId + 1
    /\ LET res == InsertResult(backend, transactions, next_id, batch)
       IN /\ transactions' = res.rows
          /\ next_id' = res.nid
          /\ last' = [op |-> "insert_transactions", batch |-> batch,
                      inserted |-> res.inserted, skipped |-> res.skipped]
    /\ UNCHANGED <<backend, person_mappings, next_mapping_id, conn, users, jwks_cache,
                   now, environ>>

(***************************************************************************)
(* import_csv_to_database                                                  *)
(***************************************************************************)
\* A file is given by the records parse_csv reads from it.
Files == Batches

\* The last call, when it was an import of the same file.
FirstImportOf(parsed) ==
    IF last.op = "import_csv_to_database" /\ last.parsed = parsed
    THEN Some([inserted |-> last.inserted, skipped |-> last.skipped])
    ELSE Null

ImportCsvToDatabase(parsed) ==
    /\ next_id + Len(parsed) <= MaxId + 1
    /\ IF parsed = <<>>
       THEN /\ last' = [op |-> "import_csv_to_database", parsed |-> parsed,
                        inserted |-> 0, skipped |-> 0,
                        first |-> FirstImportOf(parsed)]
            /\ UNCHANGED <<transactions, next_id>>
       ELSE LET res == InsertResult(backend, transactions, next_id, parsed)
            IN /\ transactions' = res.rows
               /\ next_id' = res.nid
               /\ last' = [op |-> "import_csv_to_database", parsed |-> parsed,
                           inserted |-> res.inserted, skipped |-> res.skipped,
                           first |-> FirstImportOf(parsed)]
    /\ UNCHANGED <<backend, person_mappings, next_mapping_id, conn, users, jwks_cache,
                   now, environ>>

(***************************************************************************)
(* update_transaction                                                      *)
(***************************************************************************)
valid_fieldsWithHash == {"category", "source", "notes", "description", "csv_hash"}

valid_fields == {"category", "source", "notes", "description"}

\* Keys a caller sends, and the values sent for each (None included).
\* Every value is text or None, as a JSON body carries it.
UpdateKeys == {"category", "description", "csv_hash"}

UpdateValues(k) ==
    CASE k = "description" -> {Some(<<"a", "b">>), Null}
      [] k = "csv_hash" -> {Some(<<"h", "2">>)}
      [] k = "category" -> {Some(<<"E">>)}
      [] k = "source" -> {Some(<<"E">>)}
      [] k = "notes" -> {Some(<<"n">>)}

Kwargs ==
    UNION {{f \in [K -> UNION {UpdateValues(k) : k \in K}] :
               \A k \in K : f[k] \in UpdateValues(k)} :
           K \in SUBSET UpdateKeys}

TransactionIds == 1..(MaxId + 1)

\* updates: the allow-listed keys of kwargs, in the SET clause.
Updates(kwargs) == DOMAIN kwargs \cap valid_fields

\* The row after SET, column by column.
SetColumns(r, kwargs) ==
    [c \in DOMAIN r |->
        IF c \in Updates(kwargs)
        THEN IF c = "description" THEN TheValue(kwargs[c]) ELSE kwargs[c]
        ELSE r[c]]

\* description TEXT NOT NULL
SetsNull(kwargs) == "description" \in Updates(kwargs) /\ kwargs["description"] = Null

\* The outcome of UPDATE transactions SET ... WHERE id = transaction_id:
\* the rows after the statement, its rowcount, and the constraint it broke.
UpdateStatement(rows, id, kwargs) ==
    LET hit == {r \in rows : r.id = id}
    IN IF hit = {}
       THEN [rows |-> rows, rowcount |-> 0, error |-> "none"]
       ELSE LET old == TheValue(hit)
                new == SetColumns(old, kwargs)
            IN IF SetsNull(kwargs)
               THEN [rows |-> rows, rowcount |-> 0, error |-> "NotNullViolation"]
               ELSE IF UniqueConflict(rows \ {old}, new)
                    THEN [rows |-> rows, rowcount |-> 0, error |-> "UniqueViolation"]
                    ELSE [rows |-> (rows \ {old}) \cup {new}, rowcount |-> 1,
                          error |-> "none"]

\* What update_transaction hands back: [rows, raised, returned].
\* database_pg.py returns False without a statement when no key is
\* allow-listed and rowcount > 0 otherwise; database.py returns None on
\* every path.
UpdateTransactionResult(b, rows, id, kwargs) ==
    IF Updates(kwargs) = {}
    THEN [rows |-> rows, raised |-> "none",
          returned |-> IF b = "pg" THEN "False" ELSE "None"]
    ELSE LET st == UpdateStatement(rows, id, kwargs)
         IN IF st.error # "none"
            THEN [rows |-> rows, raised |-> st.error, returned |-> "raised"]
            ELSE [rows |-> st.rows, raised |-> "none",
                  returned |-> IF b = "pg"
                               THEN (IF st.rowcount > 0 THEN "True" ELSE "False")
                               ELSE "None"]

\* PATCH /api/transactions/<int:transaction_id>, past require_admin: the
\* one caller of update_transaction.  The call is recorded with what
\* update_transaction handed back (called: FALSE when the route answered
\* before calling it) and with the response of the route.
UpdateTransaction(id, data) ==
    /\ IF DOMAIN data = {}
       THEN /\ last' = [op |-> "update_transaction", id |-> id, kwargs |-> data,
                        found |-> \E r \in transactions : r.id = id,
                        called |-> FALSE, raised |-> "none", returned |-> "none",
                        status |-> 400, success |-> FALSE]
            /\ UNCHANGED transactions
       ELSE LET res == UpdateTransactionResult(backend, transactions, id, data)
            IN /\ transactions' = res.rows
               /\ last' = [op |-> "update_transaction", id |-> id, kwargs |-> data,
                           found |-> \E r \in transactions : r.id = id,
                           called |-> TRUE, raised |-> res.raised,
                           returned |-> res.returned,
                           status |-> IF res.raised # "none" THEN 500 ELSE 200,
                           success |-> res.raised = "none"]
    /\ UNCHANGED <<backend, next_id, person_mappings, next_mapping_id, conn, users,
                   jwks_cache, now, environ>>

(***************************************************************************)
(* Specification of the store                                              *)
(***************************************************************************)
NoCall == [op |-> "none"]

Init ==
    /\ Started
    /\ backend \in Backends
    /\ transactions = {}
    /\ next_id = 1
    /\ person_mappings = {}
    /\ next_mapping_id = 1
    /\ conn = <<>>
    /\ last = NoCall

Next ==
    \/ \E batch \in Batches : InsertTransactions(batch)
    \/ \E parsed \in Files : ImportCsvToDatabase(parsed)
    \/ \E id \in TransactionIds, data \in Kwargs : UpdateTransaction(id, data)

Spec == Init /\ [][Next]_vars

(***************************************************************************)
(* Properties of the store                                                 *)
(***************************************************************************)
\* The triple of a candidate as its row holds it.
StoredTriple(b, txn) ==
    <<txn.transaction_date, txn.description, StoreAmount(b, txn.amount)>>

Stored(rows, b, txn) == \E r \in rows : Triple(r) = StoredTriple(b, txn)

\* C1: insert_transactions isolates rows.  A call keeps every row the
\* store held before it, and when it returns every row of the batch is in
\* the store under its triple, whether the call inserted it or found it:
\* a conflict on row k has undone none of rows 1..k-1.
C1_InsertIsolatesRows ==
    [][last'.op = "insert_transactions" =>
          /\ transactions \subseteq transactions'
          /\ \A i \in 1..Len(last'.batch) :
                Stored(transactions', backend, last'.batch[i])]_vars

\* A batch of two rows with one triple: row 1 went in, row 2 conflicted
\* with it, and row 1 is stored.
C1_Witness ==
    /\ last.op = "insert_transactions"
    /\ Len(last.batch) = 2
    /\ StoredTriple(backend, last.batch[1]) = StoredTriple(backend, last.batch[2])
    /\ last.inserted = 1
    /\ last.skipped = 1
    /\ Stored(transactions, backend, last.batch[1])

\* C2: no two stored transactions share (transaction_date, description,
\* amount), whatever inserts, imports and updates (of description too)
\* have run.
C2_Uniqueness ==
    \A r \in transactions : \A s \in transactions :
        r # s => (Triple(r) # Triple(s) /\ r.id # s.id)

\* An update of description onto the triple of another row was refused.
C2_Witness ==
    /\ last.op = "update_transaction"
    /\ "description" \in DOMAIN last.kwargs
    /\ last.raised = "UniqueViolation"
    /\ Cardinality(transactions) >= 2

\* C3 as stated: the second import of a file leaves the store unchanged
\* and skips N rows, N being what the first import inserted.
C3_SecondImportSkipsFirstInserted ==
    [][(last'.op = "import_csv_to_database" /\ last'.first # Null) =>
          /\ transactions' = transactions
          /\ last'.skipped = TheValue(last'.first).inserted]_vars

\* C3 amended: the second import of a file leaves the store unchanged,
\* inserts nothing and skips every record of the file; that is N exactly
\* when the first import skipped nothing.
C3_SecondImportSkipsAll ==
    [][(last'.op = "import_csv_to_database" /\ last'.first # Null) =>
          /\ transactions' = transactions
          /\ Cardinality(transactions') = Cardinality(transactions)
          /\ last'.inserted = 0
          /\ last'.skipped = Len(last'.parsed)
          /\ (TheValue(last'.first).skipped = 0 =>
                 last'.skipped = TheValue(last'.first).inserted)]_vars

\* A second import of a file whose first import inserted one row and
\* skipped one.
C3_Witness ==
    /\ last.op = "import_csv_to_database"
    /\ last.first # Null
    /\ TheValue(last.first).inserted = 1
    /\ TheValue(last.first).skipped = 1
    /\ last.skipped = 2

\* C4: insert_transactions returns (inserted, skipped) with inserted +
\* skipped the length of the batch, and the store has grown by inserted.
C4_CountsAddUp ==
    [][last'.op = "insert_transactions" =>
          /\ last'.inserted + last'.skipped = Len(last'.batch)
          /\ Cardinality(transactions') = Cardinality(transactions) + last'.inserted]_vars

\* A call on a store that held a row, with one row inserted and one
\* skipped.
C4_Witness ==
    /\ last.op = "insert_transactions"
    /\ last.inserted = 1
    /\ last.skipped = 1
    /\ Cardinality(transactions) >= 2

\* The allow-list as the update contract gives it.
AllowList == {"category", "source", "notes", "description"}

\* Column c of row r holds what kwargs supplied for it.
Holds(r, kwargs, c) ==
    IF c = "description" THEN kwargs[c] = Some(r[c]) ELSE kwargs[c] = r[c]

\* C6: update_transaction touches the row with the given id alone, and of
\* it the supplied allow-listed columns alone, which take the supplied
\* values or, when the statement is refused, stay; a call with no
\* allow-listed key changes nothing and raises nothing.
C6_UpdateFrame ==
    [][last'.op = "update_transaction" =>
          /\ \A r \in transactions :
                IF r.id # last'.id
                THEN r \in transactions'
                ELSE \E n \in transactions' :
                        /\ n.id = r.id
                        /\ \A c \in DOMAIN r :
                              \/ n[c] = r[c]
                              \/ /\ c \in DOMAIN last'.kwargs \cap AllowList
                                 /\ last'.raised = "none"
                                 /\ Holds(n, last'.kwargs, c)
                        /\ (last'.called /\ last'.raised = "none") =>
                              \A c \in DOMAIN last'.kwargs \cap AllowList :
                                  Holds(n, last'.kwargs, c)
          /\ Cardinality(transactions') = Cardinality(transactions)
          /\ (DOMAIN last'.kwargs \cap AllowList = {}) =>
                (transactions' = transactions /\ last'.raised = "none")]_vars

\* An update that supplied category and csv_hash: category took the value
\* and csv_hash kept the hash of the import.
C6_Witness ==
    /\ last.op = "update_transaction"
    /\ DOMAIN last.kwargs = {"category", "csv_hash"}
    /\ last.found
    /\ \E r \in transactions :
          /\ r.id = last.id
          /\ r.category = last.kwargs["category"]
          /\ r.csv_hash = Some(<<"h", "1">>)
          /\ r.csv_hash # last.kwargs["csv_hash"]

\* C7: an update of an id the store does not hold is reported as a
\* failure, by update_transaction and by the PATCH route, and no exception
\* escapes.
C7_AbsentIdIsFailure ==
    (last.op = "update_transaction" /\ ~last.found) =>
        /\ last.raised = "none"
        /\ ~last.success
        /\ last.called => last.returned = "False"


(***************************************************************************)
(* Two concurrent insert_transactions calls on PostgreSQL                  *)
(***************************************************************************)
\* Each caller takes a connection of the pool (get_connection, autocommit
\* off) and runs the loop of insert_transactions in one transaction, one
\* statement at a time.  conn[p] is
\*   pc       "idle", "loop", "waiting", "done" or "failed"
\*   batch, i the batch and the row the loop is at
\*   own      the rows this transaction has inserted and not yet committed
\*   pending  the row of the INSERT that is blocked, when pc = "waiting"
\*   waits    the caller whose transaction the INSERT is blocked on
\*   raised   the exception that left insert_transactions
Callers == {1, 2}

IdleConn ==
    [pc |-> "idle", batch |-> <<>>, i |-> 1, inserted |-> 0, skipped |-> 0,
     own |-> {}, pending |-> Null, waits |-> 0, raised |-> "none"]

Other(p) == CHOOSE q \in Callers : q # p

InProgress(q) == conn[q].pc \in {"loop", "waiting"}

\* with self.get_connection() as conn: with conn.cursor() as cursor:
Begin(p, batch) ==
    /\ conn[p].pc = "idle"
    /\ conn' = [conn EXCEPT ![p] = [IdleConn EXCEPT !.pc = "loop", !.batch = batch]]
    /\ UNCHANGED <<backend, transactions, next_id, person_mappings, next_mapping_id,
                   users, jwks_cache, now, environ, last>>

\* SAVEPOINT, INSERT and then RELEASE SAVEPOINT or, on UniqueViolation,
\* ROLLBACK TO SAVEPOINT.  The unique index refuses a triple that is
\* committed or is this transaction's own, and makes the INSERT wait when
\* the triple belongs to a row of a transaction still in progress.
TryInsert(p) ==
    /\ conn[p].pc = "loop"
    /\ conn[p].i <= Len(conn[p].batch)
    /\ LET c == conn[p]
           r == NewRow(backend, c.batch[c.i], next_id)
           q == Other(p)
       IN /\ next_id' = next_id + 1
          /\ IF UniqueConflict(transactions \cup c.own, r)
             THEN conn' = [conn EXCEPT ![p].skipped = c.skipped + 1, ![p].i = c.i + 1]
             ELSE IF InProgress(q) /\ UniqueConflict(conn[q].own, r)
                  THEN conn' = [conn EXCEPT ![p].pc = "waiting",
                                            ![p].pending = Some(r), ![p].waits = q]
                  ELSE conn' = [conn EXCEPT ![p].own = c.own \cup {r},
                                            ![p].inserted = c.inserted + 1,
                                            ![p].i = c.i + 1]
    /\ UNCHANGED <<backend, transactions, person_mappings, next_mapping_id, users,
                   jwks_cache, now, environ, last>>

\* The transaction waited for has ended: committed, the blocked INSERT
\* raises UniqueViolation; rolled back, the INSERT goes through.
Wake(p) ==
    /\ conn[p].pc = "waiting"
    /\ conn[conn[p].waits].pc \in {"done", "failed"}
    /\ LET c == conn[p]
       IN IF conn[c.waits].pc = "done"
          THEN conn' = [conn EXCEPT ![p].pc = "loop", ![p].pending = Null,
                                    ![p].waits = 0,
                                    ![p].skipped = c.skipped + 1, ![p].i = c.i + 1]
          ELSE conn' = [conn EXCEPT ![p].pc = "loop", ![p].pending = Null,
                                    ![p].waits = 0,
                                    ![p].own = c.own \cup c.pending,
                                    ![p].inserted = c.inserted + 1, ![p].i = c.i + 1]
    /\ UNCHANGED <<backend, transactions, next_id, person_mappings, next_mapping_id,
                   users, jwks_cache, now, environ, last>>

\* Each of the two transactions waits for the other: the deadlock detector
\* of the server ends the INSERT of one of them with DeadlockDetected,
\* which is not UniqueViolation: the exception leaves insert_transactions
\* and the connection goes back to the pool with its transaction rolled
\* back.
Deadlock(p) ==
    /\ conn[p].pc = "waiting"
    /\ conn[conn[p].waits].pc = "waiting"
    /\ conn[conn[p].waits].waits = p
    /\ conn' = [conn EXCEPT ![p].pc = "failed", ![p].own = {}, ![p].pending = Null,
                            ![p].waits = 0, ![p].raised = "DeadlockDetected"]
    /\ UNCHANGED <<backend, transactions, next_id, person_mappings, next_mapping_id,
                   users, jwks_cache, now, environ, last>>

\* conn.commit() and return inserted, skipped
Commit(p) ==
    /\ conn[p].pc = "loop"
    /\ conn[p].i > Len(conn[p].batch)
    /\ transactions' = transactions \cup conn[p].own
    /\ conn' = [conn EXCEPT ![p].pc = "done", ![p].own = {}]
    /\ UNCHANGED <<backend, next_id, person_mappings, next_mapping_id, users, jwks_cache,
                   now, environ, last>>

InitConc ==
    /\ Started
    /\ backend = "pg"
    /\ transactions = {}
    /\ next_id = 1
    /\ person_mappings = {}
    /\ next_mapping_id = 1
    /\ conn = [p \in Callers |-> IdleConn]
    /\ last = NoCall

NextConc ==
    \/ \E p \in Callers, batch \in Batches : Begin(p, batch)
    \/ \E p \in Callers : TryInsert(p)
    \/ \E p \in Callers : Wake(p)
    \/ \E p \in Callers : Deadlock(p)
    \/ \E p \in Callers : Commit(p)

SpecConc == InitConc /\ [][NextConc]_vars

\* The stored triples of the two batches.
BatchTriples(p) ==
    {StoredTriple(backend, conn[p].batch[i]) : i \in 1..Len(conn[p].batch)}

\* C5: in every interleaving of two concurrent calls the triples stay
\* unique, neither call fails, and once both have returned each has
\* inserted + skipped equal to the length of its batch, every triple of
\* the two batches is stored in one row, and the callers together count as
\* inserted exactly those rows.
C5_ConcurrentWritersComplete ==
    /\ C2_Uniqueness
    /\ \A p \in Callers : conn[p].pc # "failed"
    /\ (\A p \in Callers : conn[p].pc = "done") =>
          /\ \A p \in Callers :
                conn[p].inserted + conn[p].skipped = Len(conn[p].batch)
          /\ {Triple(r) : r \in transactions} = UNION {BatchTriples(p) : p \in Callers}
          /\ conn[1].inserted + conn[2].inserted = Cardinality(transactions)


(***************************************************************************)
(* Person mappings                                                         *)
(***************************************************************************)
MaxMappingId == 2    \* last id the person_mappings sequence hands out

Whitespace == {" "}

\* str.strip()
RECURSIVE LStrip(_)
LStrip(t) == IF t # <<>> /\ Head(t) \in Whitespace THEN LStrip(Tail(t)) ELSE t

RECURSIVE RStrip(_)
RStrip(t) ==
    IF t # <<>> /\ t[Len(t)] \in Whitespace THEN RStrip(SubSeq(t, 1, Len(t) - 1)) ELSE t

KeepsEdges(t) == t

Strip(t) == RStrip(LStrip(t))

\* not value, value a str or None
IsFalsy(o) == IF o = Null THEN TRUE ELSE TheValue(o) = <<>>

\* not value or not value.strip()
IsBlankWithoutStrip(o) == IsFalsy(o)

IsBlank(o) ==
    IF o = Null THEN TRUE
    ELSE IF TheValue(o) = <<>> THEN TRUE ELSE Strip(TheValue(o)) = <<>>

\* UNIQUE(person_name, keyword)
MappingConflict(rows, name, kw) ==
    \E m \in rows : m.person_name = name /\ m.keyword = kw

\* What add_person_mapping hands back: [rows, nid, raised, returned].
AddPersonMappingResult(b, rows, nid, person_name, keyword) ==
    IF IsBlank(person_name)
    THEN [rows |-> rows, nid |-> nid, raised |-> "ValueError", returned |-> "raised"]
    ELSE IF IsBlank(keyword)
    THEN [rows |-> rows, nid |-> nid, raised |-> "ValueError", returned |-> "raised"]
    ELSE LET name == Strip(TheValue(person_name))
             kw == Strip(TheValue(keyword))
         IN IF MappingConflict(rows, name, kw)
            THEN [rows |-> rows, nid |-> AfterFailedInsertId(b, nid),
                  raised |-> "IntegrityError", returned |-> "raised"]
            ELSE [rows |-> rows \cup {[id |-> nid, person_name |-> name, keyword |-> kw]},
                  nid |-> nid + 1, raised |-> "none", returned |-> "True"]

\* Arguments of the calls: a name or keyword is None or a text.
NameInputs == {Null, Some(<<>>), Some(<<" ">>), Some(<<"P">>), Some(<<" ", "P">>), Some(<<"Q">>)}
KeywordInputs == {Null, Some(<<>>), Some(<<" ">>), Some(<<"a">>), Some(<<"a", " ">>), Some(<<"_">>)}

\* The INSERT is reached only while the sequence has ids left.
IdsLeft(person_name, keyword) ==
    IF IsBlank(person_name) THEN TRUE
    ELSE IF IsBlank(keyword) THEN TRUE ELSE next_mapping_id <= MaxMappingId

AddPersonMapping(person_name, keyword) ==
    /\ IdsLeft(person_name, keyword)
    /\ LET res == AddPersonMappingResult(backend, person_mappings, next_mapping_id,
                                         person_name, keyword)
       IN /\ person_mappings' = res.rows
          /\ next_mapping_id' = res.nid
          /\ last' = [op |-> "add_person_mapping", person_name |-> person_name,
                      keyword |-> keyword, raised |-> res.raised,
                      returned |-> res.returned]
    /\ UNCHANGED <<backend, transactions, next_id, conn, users, jwks_cache, now, environ>>

\* JSON bodies of POST /api/person-mappings: each key absent, null or text.
MappingBodies ==
    UNION {{d \in [K -> NameInputs \cup KeywordInputs] :
               /\ ("person_name" \in K => d["person_name"] \in NameInputs)
               /\ ("keyword" \in K => d["keyword"] \in KeywordInputs)} :
           K \in SUBSET {"person_name", "keyword"}}

\* data['person_name'].strip() on null raises AttributeError, and the test
\* of keyword is not reached when person_name strips to nothing.
RouteValidation(data) ==
    IF DOMAIN data # {"person_name", "keyword"} THEN 400
    ELSE IF data["person_name"] = Null THEN 500
    ELSE IF Strip(TheValue(data["person_name"])) = <<>> THEN 400
    ELSE IF data["keyword"] = Null THEN 500
    ELSE IF Strip(TheValue(data["keyword"])) = <<>> THEN 400
    ELSE 200

\* POST /api/person-mappings, past require_admin.
RouteAddPersonMapping(data) ==
    /\ IF RouteValidation(data) # 200
       THEN /\ last' = [op |-> "POST /api/person-mappings", data |-> data,
                        status |-> RouteValidation(data), success |-> FALSE]
            /\ UNCHANGED <<person_mappings, next_mapping_id>>
       ELSE /\ IdsLeft(data["person_name"], data["keyword"])
            /\ LET res == AddPersonMappingResult(backend, person_mappings, next_mapping_id,
                                                 data["person_name"], data["keyword"])
               IN /\ person_mappings' = res.rows
                  /\ next_mapping_id' = res.nid
                  /\ last' = [op |-> "POST /api/person-mappings", data |-> data,
                              status |-> CASE res.raised = "none" -> 200
                                           [] res.raised = "IntegrityError" -> 409
                                           [] OTHER -> 500,
                              success |-> res.raised = "none"]
    /\ UNCHANGED <<backend, transactions, next_id, conn, users, jwks_cache, now, environ>>

MappingIds == 1..(MaxMappingId + 1)

\* DELETE /api/person-mappings/<int:mapping_id>, past require_admin, the
\* one caller of delete_person_mapping.
DeletePersonMapping(mapping_id) ==
    /\ LET deleted == \E m \in person_mappings : m.id = mapping_id
       IN /\ person_mappings' = {m \in person_mappings : m.id # mapping_id}
          /\ last' = [op |-> "delete_person_mapping", mapping_id |-> mapping_id,
                      returned |-> deleted,
                      status |-> IF deleted THEN 200 ELSE 404, success |-> deleted]
    /\ UNCHANGED <<backend, transactions, next_id, next_mapping_id, conn, users,
                   jwks_cache, now, environ>>

NextMap ==
    \/ \E n \in NameInputs, k \in KeywordInputs : AddPersonMapping(n, k)
    \/ \E data \in MappingBodies : RouteAddPersonMapping(data)
    \/ \E id \in MappingIds : DeletePersonMapping(id)

SpecMap == Init /\ [][NextMap]_vars

\* A text with no leading or trailing whitespace.
NoEdgeSpace(t) == t = <<>> \/ (t[1] # " " /\ t[Len(t)] # " ")

\* A name or keyword that is missing, empty or whitespace only.
NothingIn(o) ==
    IF o = Null THEN TRUE ELSE \A i \in 1..Len(TheValue(o)) : TheValue(o)[i] = " "

Missing(data, k) == IF k \notin DOMAIN data THEN TRUE ELSE NothingIn(data[k])

IsTrimOf(t, raw) ==
    /\ NoEdgeSpace(t)
    /\ \E i \in 0..Len(raw) :
          /\ i + Len(t) <= Len(raw)
          /\ SubSeq(raw, i + 1, i + Len(t)) = t
          /\ \A j \in 1..Len(raw) : (j <= i \/ j > i + Len(t)) => raw[j] = " "

\* C9: every stored mapping has a non-empty person_name and keyword
\* without leading or trailing whitespace, no two stored mappings share
\* (person_name, keyword), and adding a pair that equals a stored pair
\* after trimming raises the conflict and leaves the store as it was.
C9_MappingInvariant ==
    /\ [](\A m \in person_mappings :
             /\ m.person_name # <<>> /\ NoEdgeSpace(m.person_name)
             /\ m.keyword # <<>> /\ NoEdgeSpace(m.keyword)
             /\ \A n \in person_mappings :
                   m # n => (<<m.person_name, m.keyword>> # <<n.person_name, n.keyword>>
                             /\ m.id # n.id))
    /\ [][(/\ last'.op = "add_person_mapping"
           /\ ~NothingIn(last'.person_name) /\ ~NothingIn(last'.keyword)
           /\ \E m \in person_mappings :
                 /\ IsTrimOf(m.person_name, TheValue(last'.person_name))
                 /\ IsTrimOf(m.keyword, TheValue(last'.keyword))) =>
              /\ last'.raised = "IntegrityError"
              /\ person_mappings' = person_mappings]_vars

\* A padded keyword that trims to a stored pair was refused.
C9_Witness ==
    /\ last.op = "add_person_mapping"
    /\ last.keyword = Some(<<"a", " ">>)
    /\ last.raised = "IntegrityError"
    /\ \E m \in person_mappings : m.keyword = <<"a">>


(***************************************************************************)
(* Attribution: get_contributions and get_contribution_statistics          *)
(***************************************************************************)
MaxKwLen == 2        \* longest keyword of a mapping
MaxMappings == 2     \* most mappings in the store

\* lower() of the ASCII letters the model uses; LIKE of SQLite and ILIKE of
\* PostgreSQL both compare these without regard to case.
Fold(c) ==
    CASE c = "A" -> "a"
      [] c = "B" -> "b"
      [] c = "C" -> "c"
      [] OTHER -> c

\* text LIKE pat: % stands for any run of characters, _ for any one.
\* (No character of the model is the escape character of PostgreSQL.)
RECURSIVE Like(_, _)
Like(pat, text) ==
    IF pat = <<>> THEN text = <<>>
    ELSE IF Head(pat) = "%"
         THEN IF Like(Tail(pat), text) THEN TRUE
              ELSE IF text = <<>> THEN FALSE ELSE Like(pat, Tail(text))
         ELSE IF text = <<>> THEN FALSE
              ELSE IF Head(pat) = "_" THEN Like(Tail(pat), Tail(text))
                   ELSE IF Fold(Head(pat)) = Fold(Head(text))
                        THEN Like(Tail(pat), Tail(text))
                        ELSE FALSE

\* t.description [I]LIKE '%' || pm.keyword || '%'
JoinOn(description, keyword) == Like(<<"%">> \o keyword \o <<"%">>, description)

\* if start_date: / if end_date: / if person_name:
InRange(t, start_date, end_date) ==
    /\ (start_date # Null => t.transaction_date >= TheValue(start_date))
    /\ (end_date # Null => t.transaction_date <= TheValue(end_date))

PersonFilter(m, person_name) ==
    IF IsFalsy(person_name) THEN TRUE ELSE m.person_name = TheValue(person_name)

\* The rows of the join that pass WHERE: pairs of a deposit and a mapping.
Join(rows, mappings, start_date, end_date, person_name) ==
    {jm \in rows \X mappings :
        /\ JoinOn(jm[1].description, jm[2].keyword)
        /\ jm[1].amount > 0
        /\ PersonFilter(jm[2], person_name)
        /\ InRange(jm[1], start_date, end_date)}

\* Order of the texts the model uses for names, by character code.
Code(c) ==
    CASE c = " " -> 32
      [] c = "P" -> 80
      [] c = "Q" -> 81
      [] OTHER -> 0

RECURSIVE TextLeq(_, _)
TextLeq(x, y) ==
    IF x = <<>> THEN TRUE
    ELSE IF y = <<>> THEN FALSE
    ELSE IF Code(Head(x)) < Code(Head(y)) THEN TRUE
    ELSE IF Code(Head(x)) > Code(Head(y)) THEN FALSE
    ELSE TextLeq(Tail(x), Tail(y))

\* The person of the mapping added first among those that match t.
FirstAddedPerson(join, t) ==
    LET mine == {jm \in join : jm[1] = t}
    IN (CHOOSE jm \in mine : \A o \in mine : jm[2].id <= o[2].id)[2].person_name

\* MIN(pm.person_name) per t.id / the first row of DISTINCT ON (t.id)
\* under ORDER BY t.id, pm.person_name
FirstPerson(join, t) ==
    LET names == {jm[2].person_name : jm \in {x \in join : x[1] = t}}
    IN CHOOSE n \in names : \A o \in names : TextLeq(n, o)

\* One row for each row of the join, without DISTINCT ON / GROUP BY t.id.
ContributionRowsPerMatch(join) ==
    {[id |-> jm[1].id, transaction_date |-> jm[1].transaction_date,
      description |-> jm[1].description, amount |-> jm[1].amount,
      balance |-> jm[1].balance, person_name |-> jm[2].person_name] : jm \in join}

ContributionRows(join) ==
    {[id |-> t.id, transaction_date |-> t.transaction_date,
      description |-> t.description, amount |-> t.amount, balance |-> t.balance,
      person_name |-> FirstPerson(join, t)] : t \in {jm[1] : jm \in join}}

\* The sequences that list the elements of S once each.
Listings(S) ==
    {f \in [1..Cardinality(S) -> S] : \A i, j \in 1..Cardinality(S) : i # j => f[i] # f[j]}

\* pg: ORDER BY t.id and then the stable results.sort by transaction_date,
\* reverse.  sqlite: ORDER BY t.transaction_date DESC, rows of one date in
\* any order.
ContributionOrders(b, S) ==
    {f \in Listings(S) :
        \A i, j \in 1..Len(f) : i < j =>
            /\ f[i].transaction_date >= f[j].transaction_date
            /\ (b = "pg" /\ f[i].transaction_date = f[j].transaction_date) =>
                  f[i].id < f[j].id}

RECURSIVE SumAmounts(_)
SumAmounts(join) ==
    IF join = {} THEN 0
    ELSE LET jm == CHOOSE x \in join : TRUE
         IN jm[1].amount + SumAmounts(join \ {jm})

\* A grouping that counts the rows of the join: COUNT(*).
ByPersonCountsMatches(join) ==
    {[person_name |-> n,
      total |-> SumAmounts({jm \in join : jm[2].person_name = n}),
      count |-> Cardinality({jm \in join : jm[2].person_name = n})] :
        n \in {jm[2].person_name : jm \in join}}

\* GROUP BY pm.person_name: SUM(t.amount), COUNT(DISTINCT t.id)
ByPerson(join) ==
    {[person_name |-> n,
      total |-> SumAmounts({jm \in join : jm[2].person_name = n}),
      count |-> Cardinality({jm[1].id : jm \in {x \in join : x[2].person_name = n}})] :
        n \in {jm[2].person_name : jm \in join}}

\* ORDER BY total DESC, groups of one total in any order
ByPersonOrders(S) ==
    {f \in Listings(S) : \A i, j \in 1..Len(f) : i < j => f[i].total >= f[j].total}

\* TO_CHAR(t.transaction_date, 'YYYY-MM') / strftime('%Y-%m', ...)
Month(d) == d \div 100

\* GROUP BY month, pm.person_name
MonthlyByPerson(join) ==
    {[month |-> g[1], person_name |-> g[2],
      total |-> SumAmounts({jm \in join :
                   Month(jm[1].transaction_date) = g[1] /\ jm[2].person_name = g[2]})] :
        g \in {<<Month(jm[1].transaction_date), jm[2].person_name>> : jm \in join}}

\* ORDER BY month DESC, pm.person_name
MonthlyOrders(S) ==
    {f \in Listings(S) :
        \A i, j \in 1..Len(f) : i < j =>
            \/ f[i].month > f[j].month
            \/ (f[i].month = f[j].month /\ TextLeq(f[i].person_name, f[j].person_name))}

GetContributions(start_date, end_date, person_name) ==
    /\ \E join \in {Join(transactions, person_mappings, start_date, end_date, person_name)} :
       \E rows \in ContributionOrders(backend, ContributionRows(join)) :
          last' = [op |-> "get_contributions", start_date |-> start_date,
                   end_date |-> end_date, person_name |-> person_name, rows |-> rows]
    /\ UNCHANGED <<backend, transactions, next_id, person_mappings, next_mapping_id,
                   conn, users, jwks_cache, now, environ>>

GetContributionStatistics(start_date, end_date) ==
    /\ \E join \in {Join(transactions, person_mappings, start_date, end_date, Null)} :
          \E by_person \in ByPersonOrders(ByPerson(join)) :
          \E monthly_by_person \in MonthlyOrders(MonthlyByPerson(join)) :
             last' = [op |-> "get_contribution_statistics", start_date |-> start_date,
                      end_date |-> end_date, by_person |-> by_person,
                      monthly_by_person |-> monthly_by_person]
    /\ UNCHANGED <<backend, transactions, next_id, person_mappings, next_mapping_id,
                   conn, users, jwks_cache, now, environ>>

\* Stores the queries are run on: rows as insert_transactions leaves them
\* and mappings as add_person_mapping leaves them.
AttrRow(id, d, x, a) ==
    NewRow("sqlite", [transaction_date |-> d, description |-> x, amount |-> a,
                      balance |-> Null, category |-> Null, source |-> Null,
                      csv_hash |-> Null], id)

AttrStore ==
    {AttrRow(1, 20240105, <<"A", "b">>, 1000),
     AttrRow(2, 20240220, <<"b", "a">>, 2000),
     AttrRow(3, 20240220, <<"a", "b">>, -5000),
     AttrRow(4, 20240220, <<"A", "b">>, 3000)}

\* Keywords as add_person_mapping stores them (trimmed, not empty), the
\* ones of at most MaxKwLen characters.
AttrKeywords ==
    {kw \in {<<"a">>, <<"_">>, <<"a", "b">>, <<"b", "_", "b">>} :
        Len(kw) <= MaxKwLen}
AttrPersons == {<<"P">>, <<"Q">>}
AttrPairs == AttrPersons \X AttrKeywords

\* The mappings left by adding the pairs f[1], f[2], ... in this order.
Numbered(f) ==
    {[id |-> i, person_name |-> f[i][1], keyword |-> f[i][2]] : i \in DOMAIN f}

\* Every order of adding at most MaxMappings different pairs.
AttrPairSeqs ==
    UNION {{f \in [1..k -> AttrPairs] : \A i, j \in 1..k : i # j => f[i] # f[j]} :
              k \in 0..MaxMappings}

DateInputs == {Null, Some(20240220)}
PersonInputs == {Null} \cup {Some(n) : n \in AttrPersons}

InitAttr ==
    /\ Started
    /\ backend \in Backends
    /\ transactions = AttrStore
    /\ next_id = 5
    /\ \E f \in AttrPairSeqs :
          /\ person_mappings = Numbered(f)
          /\ next_mapping_id = Len(f) + 1
    /\ conn = <<>>
    /\ last = NoCall

NextAttr ==
    \/ \E sd \in DateInputs, ed \in DateInputs, pn \in PersonInputs :
          GetContributions(sd, ed, pn)
    \/ \E sd \in DateInputs, ed \in DateInputs : GetContributionStatistics(sd, ed)

SpecAttr == InitAttr /\ [][NextAttr]_vars

\* kw occurs in text as a run of characters, case put aside.
OccursIn(kw, text) ==
    \E i \in 0..(Len(text) - Len(kw)) :
        \A j \in 1..Len(kw) : Fold(text[i + j]) = Fold(kw[j])

\* The deposits in the range of the last query that hold a keyword of
\* person n as a plain text.
LiteralDeposits(n) ==
    {t \in transactions :
        /\ t.amount > 0
        /\ InRange(t, last.start_date, last.end_date)
        /\ \E m \in person_mappings : m.person_name = n /\ OccursIn(m.keyword, t.description)}

\* C10: a deposit is attributed to a person exactly when a keyword of that
\* person, read as a plain text, occurs in its description, case put
\* aside: get_contributions for person P lists exactly those deposits, and
\* get_contribution_statistics counts exactly those for each person.
C10_LiteralKeywordMatch ==
    /\ (last.op = "get_contributions" /\ last.person_name # Null) =>
          {last.rows[i].id : i \in 1..Len(last.rows)}
              = {t.id : t \in LiteralDeposits(TheValue(last.person_name))}
    /\ last.op = "get_contribution_statistics" =>
          \A n \in AttrPersons :
              LET entries == {i \in 1..Len(last.by_person) : last.by_person[i].person_name = n}
              IN IF LiteralDeposits(n) = {} THEN entries = {}
                 ELSE \E i \in entries :
                         last.by_person[i].count = Cardinality(LiteralDeposits(n))


\* The persons owning a mapping whose keyword the store finds in the
\* description of t.
MatchingPersons(t) ==
    {m.person_name : m \in {x \in person_mappings : JoinOn(t.description, x.keyword)}}

\* Alphabetical order of the one-letter names P and Q.
AlphaFirst(n, names) == n \in names /\ (<<"P">> \in names => n = <<"P">>)

RowIds(rows) == {rows[i].id : i \in 1..Len(rows)}

MatchedDeposits ==
    {t \in transactions :
        /\ t.amount > 0
        /\ InRange(t, last.start_date, last.end_date)
        /\ \E m \in person_mappings :
              /\ JoinOn(t.description, m.keyword)
              /\ (last.person_name # Null => m.person_name = TheValue(last.person_name))}

PlainKeywords ==
    \A m \in person_mappings : \A i \in 1..Len(m.keyword) : m.keyword[i] \notin {"%", "_"}

\* C13: get_contributions(person_name = P) returns exactly the rows of
\* the unfiltered get_contributions() whose resolved person_name is P
\* (stated for stores whose keywords are plain texts).
C13_FilterSelectsResolvedRows ==
    (last.op = "get_contributions" /\ last.person_name # Null /\ PlainKeywords) =>
        {last.rows[i] : i \in 1..Len(last.rows)}
            = {r \in ContributionRows(Join(transactions, person_mappings,
                                            last.start_date, last.end_date, Null)) :
                  r.person_name = TheValue(last.person_name)}

\* The deposits of the range of the last query that person n matches.
DepositsOf(n) ==
    {t \in transactions :
        /\ t.amount > 0
        /\ InRange(t, last.start_date, last.end_date)
        /\ n \in MatchingPersons(t)}

\* C14: get_contribution_statistics counts each deposit once for each
\* person it matches: the by_person entry of P has as total the sum of
\* the amounts of the distinct deposits P matches and as count their
\* number, and there is exactly one entry for each person with a deposit
\* (stated for stores whose keywords are plain texts).
C14_OncePerPerson ==
    (last.op = "get_contribution_statistics" /\ PlainKeywords) =>
        /\ \A i \in 1..Len(last.by_person) :
              LET D == DepositsOf(last.by_person[i].person_name)
              IN /\ last.by_person[i].count = Cardinality(D)
                 /\ last.by_person[i].total = SumAmounts({<<t, t>> : t \in D})
        /\ \A n \in AttrPersons :
              DepositsOf(n) # {} =>
                  Cardinality({i \in 1..Len(last.by_person) :
                                  last.by_person[i].person_name = n}) = 1


(***************************************************************************)
(* Aggregation: get_statistics and get_recurring_transactions              *)
(***************************************************************************)
MaxStored == 4       \* most rows in the store the aggregates are run on

RECURSIVE SumRows(_)
SumRows(rows) ==
    IF rows = {} THEN 0
    ELSE LET r == CHOOSE x \in rows : TRUE
         IN r.amount + SumRows(rows \ {r})

\* SUM(...) in SQL: NULL over no rows.  part is the rows whose CASE arm
\* is amount, the other rows add 0.
SqlSum(rows, part) == IF rows = {} THEN Null ELSE Some(SumRows(part))

\* AVG(amount): NULL over no rows, else the quotient, kept as a fraction.
SqlAvg(rows) ==
    IF rows = {} THEN Null
    ELSE Some([num |-> SumRows(rows), den |-> Cardinality(rows)])

\* MIN(transaction_date), MAX(transaction_date): NULL over no rows.
SqlMinDate(rows) ==
    IF rows = {} THEN Null
    ELSE Some(CHOOSE d \in {r.transaction_date : r \in rows} :
                 \A r \in rows : d <= r.transaction_date)

SqlMaxDate(rows) ==
    IF rows = {} THEN Null
    ELSE Some(CHOOSE d \in {r.transaction_date : r \in rows} :
                 \A r \in rows : d >= r.transaction_date)

\* COALESCE(x, 0) of database_pg.py; database.py selects the aggregate bare.
Coalesce(b, o, zero) == IF b = "pg" /\ o = Null THEN Some(zero) ELSE o

\* SELECT source, SUM(amount), COUNT(*) ... WHERE amount > 0 GROUP BY source
DepositsBySource(rows) ==
    LET dep == {r \in rows : r.amount > 0}
    IN {[source |-> g, total |-> SumRows({r \in dep : r.source = g}),
         count |-> Cardinality({r \in dep : r.source = g})] : g \in {r.source : r \in dep}}

\* ORDER BY total DESC, rows of one total in any order
TotalDescOrders(S) ==
    {f \in Listings(S) : \A i, j \in 1..Len(f) : i < j => f[i].total >= f[j].total}

\* ORDER BY total
TotalAscOrders(S) ==
    {f \in Listings(S) : \A i, j \in 1..Len(f) : i < j => f[i].total <= f[j].total}

\* ORDER BY month DESC
MonthDescOrders(S) ==
    {f \in Listings(S) : \A i, j \in 1..Len(f) : i < j => f[i].month > f[j].month}

\* GROUP BY month: deposits, withdrawals, net of each month
MonthlyBreakdown(b, rows) ==
    {[month |-> g,
      deposits |-> LET mr == {r \in rows : Month(r.transaction_date) = g}
                   IN Coalesce(b, SqlSum(mr, {r \in mr : r.amount > 0}), 0),
      withdrawals |-> LET mr == {r \in rows : Month(r.transaction_date) = g}
                      IN Coalesce(b, SqlSum(mr, {r \in mr : r.amount < 0}), 0),
      net |-> LET mr == {r \in rows : Month(r.transaction_date) = g}
              IN Coalesce(b, SqlSum(mr, mr), 0)] :
        g \in {Month(r.transaction_date) : r \in rows}}

\* SELECT category, SUM(amount), COUNT(*) ... WHERE category IS NOT NULL
ByCategory(rows) ==
    LET cat == {r \in rows : r.category # Null}
    IN {[category |-> g, total |-> SumRows({r \in cat : r.category = g}),
         count |-> Cardinality({r \in cat : r.category = g})] : g \in {r.category : r \in cat}}

\* The first SELECT of get_statistics over the rows that pass WHERE.
OverallStatistics(b, rows) ==
    [total_transactions |-> Cardinality(rows),
     total_deposits |-> Coalesce(b, SqlSum(rows, {r \in rows : r.amount > 0}), 0),
     total_withdrawals |-> Coalesce(b, SqlSum(rows, {r \in rows : r.amount < 0}), 0),
     net_change |-> Coalesce(b, SqlSum(rows, rows), 0),
     avg_transaction |-> Coalesce(b, SqlAvg(rows), [num |-> 0, den |-> 1]),
     earliest_date |-> SqlMinDate(rows),
     latest_date |-> SqlMaxDate(rows)]

GetStatistics(start_date, end_date) ==
    /\ \E rows \in {{t \in transactions : InRange(t, start_date, end_date)}} :
          \E deposits_by_source \in TotalDescOrders(DepositsBySource(rows)) :
          \E monthly_breakdown \in MonthDescOrders(MonthlyBreakdown(backend, rows)) :
          \E by_category \in TotalAscOrders(ByCategory(rows)) :
             last' = [op |-> "get_statistics", start_date |-> start_date,
                      end_date |-> end_date, stats |-> OverallStatistics(backend, rows),
                      deposits_by_source |-> deposits_by_source,
                      monthly_breakdown |-> monthly_breakdown,
                      by_category |-> by_category]
    /\ UNCHANGED <<backend, transactions, next_id, person_mappings, next_mapping_id,
                   conn, users, jwks_cache, now, environ>>

\* HAVING COUNT(*) > ?
HavingMoreThan(count, min_occurrences) == count > min_occurrences

\* HAVING COUNT(*) >= ?
Having(count, min_occurrences) == count >= min_occurrences

\* def get_recurring_transactions(self, min_occurrences: int = 3)
DefaultMinOccurrences == 3

\* GROUP BY description HAVING COUNT(*) >= min_occurrences
RecurringGroups(rows, min_occurrences) ==
    {[description |-> g,
      occurrences |-> Cardinality({r \in rows : r.description = g}),
      avg_amount |-> TheValue(SqlAvg({r \in rows : r.description = g})),
      min_amount |-> LET a == {r.amount : r \in {x \in rows : x.description = g}}
                     IN CHOOSE m \in a : \A o \in a : m <= o,
      max_amount |-> LET a == {r.amount : r \in {x \in rows : x.description = g}}
                     IN CHOOSE m \in a : \A o \in a : m >= o] :
        g \in {d \in {r.description : r \in rows} :
                  Having(Cardinality({r \in rows : r.description = d}), min_occurrences)}}

\* ORDER BY occurrences DESC, rows of one count in any order
OccurrencesDescOrders(S) ==
    {f \in Listings(S) :
        \A i, j \in 1..Len(f) : i < j => f[i].occurrences >= f[j].occurrences}

\* min_occurrences is Null when the caller leaves the argument out.
GetRecurringTransactions(min_occurrences) ==
    /\ LET min == IF min_occurrences = Null THEN DefaultMinOccurrences
                  ELSE TheValue(min_occurrences)
       IN \E rows \in OccurrencesDescOrders(RecurringGroups(transactions, min)) :
             last' = [op |-> "get_recurring_transactions",
                      min_occurrences |-> min_occurrences, rows |-> rows]
    /\ UNCHANGED <<backend, transactions, next_id, person_mappings, next_mapping_id,
                   conn, users, jwks_cache, now, environ>>

\* Rows the aggregates are run on, as insert_transactions leaves them.
QueryPool(b) ==
    {NewRow(b, [transaction_date |-> c[2], description |-> c[3], amount |-> c[4],
                balance |-> Null, category |-> c[5], source |-> c[6],
                csv_hash |-> Null], c[1]) :
        c \in {<<1, 20240105, <<"a", "b">>, 1000, Some(<<"I", "n", "c">>), Some(<<"O">>)>>,
               <<2, 20240220, <<"a", "b">>, 2004, Some(<<"I", "n", "c">>), Some(<<"O">>)>>,
               <<3, 20240220, <<"a", "b">>, -5000, Some(<<"F", "e", "e">>), Null>>,
               <<4, 20240105, <<"A", "b">>, 1000, Null, Some(<<"T">>)>>,
               <<5, 20240220, <<"A", "b">>, 1000, Null, Some(<<"T">>)>>}}

MinOccurrencesInputs == {Null} \cup {Some(n) : n \in 1..(MaxStored + 1)}

InitQuery ==
    /\ Started
    /\ backend \in Backends
    /\ \E S \in SUBSET QueryPool(backend) :
          /\ Cardinality(S) <= MaxStored
          /\ transactions = S
    /\ next_id = 6
    /\ person_mappings = {}
    /\ next_mapping_id = 1
    /\ conn = <<>>
    /\ last = NoCall

NextQuery ==
    \/ \E sd \in DateInputs, ed \in DateInputs : GetStatistics(sd, ed)
    \/ \E n \in MinOccurrencesInputs : GetRecurringTransactions(n)

SpecQuery == InitQuery /\ [][NextQuery]_vars

\* C15: get_statistics over no rows (an empty store or a date range
\* holding no transaction) returns total_transactions 0, the number 0 (not
\* null) for total_deposits, total_withdrawals and net_change, and null for
\* earliest_date and latest_date, in both stores.
C15_EmptyStatisticsAreZero ==
    (/\ last.op = "get_statistics"
     /\ \A t \in transactions : ~InRange(t, last.start_date, last.end_date)) =>
        /\ last.stats.total_transactions = 0
        /\ last.stats.total_deposits = Some(0)
        /\ last.stats.total_withdrawals = Some(0)
        /\ last.stats.net_change = Some(0)
        /\ last.stats.earliest_date = Null
        /\ last.stats.latest_date = Null

\* The number of stored transactions whose description is exactly d.
Occurrences(d) == Cardinality({t \in transactions : t.description = d})

\* The threshold the last call of get_recurring_transactions ran with.
Threshold == IF last.min_occurrences = Null THEN 3 ELSE TheValue(last.min_occurrences)

\* C16: get_recurring_transactions(min_occurrences) returns a description
\* exactly when at least min_occurrences (3 when left out) stored
\* transactions have exactly that description, one entry for each with
\* occurrences equal to that number, in non-increasing order of occurrences.
C16_RecurringExactMatch ==
    last.op = "get_recurring_transactions" =>
        /\ {last.rows[i].description : i \in 1..Len(last.rows)}
              = {d \in {t.description : t \in transactions} : Occurrences(d) >= Threshold}
        /\ \A i, j \in 1..Len(last.rows) :
              i # j => last.rows[i].description # last.rows[j].description
        /\ \A i \in 1..Len(last.rows) :
              last.rows[i].occurrences = Occurrences(last.rows[i].description)
        /\ \A i, j \in 1..Len(last.rows) :
              i < j => last.rows[i].occurrences >= last.rows[j].occurrences

\* With the default threshold: three rows described "ab" are returned, a
\* description differing in case only, stored less often, is not.
C16_Witness ==
    /\ last.op = "get_recurring_transactions" /\ last.min_occurrences = Null
    /\ Occurrences(<<"a", "b">>) = 3
    /\ Occurrences(<<"A", "b">>) \in 1..2
    /\ Len(last.rows) = 1
    /\ last.rows[1].description = <<"a", "b">>
    /\ last.rows[1].occurrences = 3


(***************************************************************************)
(* CSV import: ETradeCSVParser and import_csv_to_database                  *)
(***************************************************************************)
MaxRows == 2         \* most rows of a parsed file

UpperCase == <<"A", "B", "C", "D", "E", "F", "G", "H", "I", "J", "K", "L", "M", "N", "O", "P", "Q", "R", "S", "T", "U", "V", "W", "X", "Y", "Z">>
LowerCase == <<"a", "b", "c", "d", "e", "f", "g", "h", "i", "j", "k", "l", "m", "n", "o", "p", "q", "r", "s", "t", "u", "v", "w", "x", "y", "z">>

\* str.lower() on ASCII text
Lower(c) ==
    IF \E i \in 1..26 : UpperCase[i] = c
    THEN LowerCase[CHOOSE i \in 1..26 : UpperCase[i] = c]
    ELSE c

RECURSIVE LowerText(_)
LowerText(t) == IF t = <<>> THEN <<>> ELSE <<Lower(Head(t))>> \o LowerText(Tail(t))

\* keyword in text
Contains(keyword, text) ==
    \E i \in 0..(Len(text) - Len(keyword)) : SubSeq(text, i + 1, i + Len(keyword)) = keyword

\* any(keyword in description_lower for keyword in [...])
AnyIn(keywords, text) == \E keyword \in keywords : Contains(keyword, text)

\* if amount >= 0:
IsDepositOrZero(amount) == amount >= 0

\* if amount > 0:
IsDeposit(amount) == amount > 0

\* The if / elif chain of each branch, on description_lower.
CategoryOf(description_lower, amount) ==
    IF IsDeposit(amount)
    THEN IF AnyIn({<<"d", "i", "r", "e", "c", "t", " ", "d", "e", "p">>, <<"d", "e", "p", "o", "s", "i", "t">>, <<"p", "a", "y", "r", "o", "l", "l">>, <<"s", "a", "l", "a", "r", "y">>}, description_lower)
         THEN <<"I", "n", "c", "o", "m", "e">>
         ELSE IF AnyIn({<<"t", "r", "a", "n", "s", "f", "e", "r">>, <<"x", "f", "e", "r">>}, description_lower)
         THEN <<"T", "r", "a", "n", "s", "f", "e", "r", " ", "I", "n">>
         ELSE IF AnyIn({<<"i", "n", "t", "e", "r", "e", "s", "t">>, <<"d", "i", "v", "i", "d", "e", "n", "d">>}, description_lower)
         THEN <<"I", "n", "t", "e", "r", "e", "s", "t", "/", "D", "i", "v", "i", "d", "e", "n", "d">>
         ELSE <<"O", "t", "h", "e", "r", " ", "I", "n", "c", "o", "m", "e">>
    ELSE IF AnyIn({<<"a", "t", "m">>, <<"w", "i", "t", "h", "d", "r", "a", "w", "a", "l">>}, description_lower)
         THEN <<"A", "T", "M", "/", "C", "a", "s", "h">>
         ELSE IF AnyIn({<<"g", "r", "o", "c", "e", "r", "y">>, <<"s", "u", "p", "e", "r", "m", "a", "r", "k", "e", "t">>, <<"f", "o", "o", "d">>}, description_lower)
         THEN <<"G", "r", "o", "c", "e", "r", "i", "e", "s">>
         ELSE IF AnyIn({<<"g", "a", "s">>, <<"f", "u", "e", "l">>, <<"s", "h", "e", "l", "l">>, <<"e", "x", "x", "o", "n">>, <<"c", "h", "e", "v", "r", "o", "n">>}, description_lower)
         THEN <<"G", "a", "s", "/", "F", "u", "e", "l">>
         ELSE IF AnyIn({<<"r", "e", "s", "t", "a", "u", "r", "a", "n", "t">>, <<"c", "a", "f", "e">>, <<"c", "o", "f", "f", "e", "e">>}, description_lower)
         THEN <<"D", "i", "n", "i", "n", "g">>
         ELSE IF AnyIn({<<"u", "t", "i", "l", "i", "t", "y">>, <<"e", "l", "e", "c", "t", "r", "i", "c">>, <<"g", "a", "s">>, <<"w", "a", "t", "e", "r">>}, description_lower)
         THEN <<"U", "t", "i", "l", "i", "t", "i", "e", "s">>
         ELSE IF AnyIn({<<"t", "r", "a", "n", "s", "f", "e", "r">>, <<"x", "f", "e", "r">>}, description_lower)
         THEN <<"T", "r", "a", "n", "s", "f", "e", "r", " ", "O", "u", "t">>
         ELSE IF AnyIn({<<"c", "h", "e", "c", "k">>, <<"c", "h", "e", "q", "u", "e">>}, description_lower)
         THEN <<"C", "h", "e", "c", "k">>
         ELSE IF AnyIn({<<"f", "e", "e">>, <<"c", "h", "a", "r", "g", "e">>}, description_lower)
         THEN <<"F", "e", "e", "s">>
         ELSE <<"O", "t", "h", "e", "r", " ", "E", "x", "p", "e", "n", "s", "e">>

\* _categorize_transaction; description.lower() is computed once
CategorizeTransaction(description, amount) ==
    CHOOSE category \in {CategoryOf(description_lower, amount) :
                            description_lower \in {LowerText(description)}} : TRUE

\* str.split(): the runs of characters between whitespace
RECURSIVE SplitWords(_, _)
SplitWords(t, word) ==
    IF t = <<>> THEN (IF word = <<>> THEN <<>> ELSE <<word>>)
    ELSE IF Head(t) \in Whitespace
         THEN (IF word = <<>> THEN <<>> ELSE <<word>>) \o SplitWords(Tail(t), <<>>)
         ELSE SplitWords(Tail(t), Append(word, Head(t)))

\* ' '.join(parts)
RECURSIVE JoinWords(_)
JoinWords(parts) ==
    IF parts = <<>> THEN <<>>
    ELSE IF Len(parts) = 1 THEN parts[1]
    ELSE parts[1] \o <<" ">> \o JoinWords(Tail(parts))

\* description.split('-')[0]
RECURSIVE BeforeDash(_)
BeforeDash(t) ==
    IF t = <<>> THEN <<>>
    ELSE IF Head(t) = "-" THEN <<>>
    ELSE <<Head(t)>> \o BeforeDash(Tail(t))

\* [:50]
MaxSourceLen == 50
Truncate(t, n) == SubSeq(t, 1, IF Len(t) < n THEN Len(t) ELSE n)

\* _extract_source
ExtractSource(description, amount) ==
    LET description_lower == LowerText(description)
    IN IF IsDeposit(amount)
       THEN IF Contains(<<"d", "i", "r", "e", "c", "t", " ", "d", "e", "p">>, description_lower)
               \/ Contains(<<"p", "a", "y", "r", "o", "l", "l">>, description_lower)
            THEN LET parts == SplitWords(description, <<>>)
                 IN IF Len(parts) > 2
                    THEN JoinWords(SubSeq(parts, 3, IF Len(parts) < 4 THEN Len(parts) ELSE 4))
                    ELSE <<"P", "a", "y", "r", "o", "l", "l">>
            ELSE IF Contains(<<"t", "r", "a", "n", "s", "f", "e", "r">>, description_lower) THEN <<"T", "r", "a", "n", "s", "f", "e", "r">>
            ELSE IF Contains(<<"i", "n", "t", "e", "r", "e", "s", "t">>, description_lower) THEN <<"I", "n", "t", "e", "r", "e", "s", "t">>
            ELSE <<"O", "t", "h", "e", "r">>
       ELSE Truncate(Strip(BeforeDash(description)), MaxSourceLen)


Digits == <<"0", "1", "2", "3", "4", "5", "6", "7", "8", "9">>
IsDigit(c) == \E i \in 1..10 : Digits[i] = c
DigitValue(c) == (CHOOSE i \in 1..10 : Digits[i] = c) - 1
AllDigits(t) == \A i \in 1..Len(t) : IsDigit(t[i])

\* int() of a run of digits
RECURSIVE Number(_)
Number(t) ==
    IF t = <<>> THEN 0
    ELSE Number(SubSeq(t, 1, Len(t) - 1)) * 10 + DigitValue(t[Len(t)])

\* .replace(c, '') for each c of chars
RECURSIVE Remove(_, _)
Remove(t, chars) ==
    IF t = <<>> THEN <<>>
    ELSE IF Head(t) \in chars THEN Remove(Tail(t), chars)
    ELSE <<Head(t)>> \o Remove(Tail(t), chars)

\* float(amount_str), in thousandths, Null for ValueError.  The texts of
\* the model are made of digits, signs, points, brackets and letters other
\* than e, i, n, f, a: a sign, then digits with at most one point and a
\* digit on one side of it at least.  Amounts of the model have at most
\* three decimals.
FloatOf(s) ==
    LET signed == IF s = <<>> THEN FALSE ELSE Head(s) \in {"+", "-"}
        body == IF signed THEN Tail(s) ELSE s
        points == {i \in 1..Len(body) : body[i] = "."}
        point == IF points = {} THEN Len(body) + 1 ELSE CHOOSE i \in points : TRUE
        whole == SubSeq(body, 1, point - 1)
        decimals == SubSeq(body, point + 1, Len(body))
        thousandths == SubSeq(decimals \o <<"0", "0", "0">>, 1, 3)
        magnitude == Number(whole) * 1000 + Number(thousandths)
    IN IF Cardinality(points) > 1 THEN Null
       ELSE IF ~AllDigits(whole) THEN Null
       ELSE IF ~AllDigits(decimals) THEN Null
       ELSE IF whole = <<>> /\ decimals = <<>> THEN Null
       ELSE IF signed /\ Head(s) = "-" THEN Some(0 - magnitude)
       ELSE Some(magnitude)

\* if pd.isna(amount_value): raise ValueError
MissingAmountRaises == [raised |-> TRUE, value |-> 0]

\* if pd.isna(amount_value): return 0.0
MissingAmount == [raised |-> FALSE, value |-> 0]

\* str(amount_value) stripped, without currency sign, commas and blanks,
\* (n) rewritten -n
CleanAmount(amount_value) ==
    LET stripped == Remove(Strip(amount_value), {"$", ",", " "})
    IN IF stripped = <<>> THEN stripped
       ELSE IF Head(stripped) = "(" /\ stripped[Len(stripped)] = ")"
            THEN <<"-">> \o SubSeq(stripped, 2, Len(stripped) - 1)
            ELSE stripped

\* _parse_amount; a cell is Null for NaN, else the text of its value
ParseAmount(amount_value) ==
    IF amount_value = Null THEN MissingAmount
    ELSE CHOOSE result \in
            {IF parsed = Null THEN [raised |-> TRUE, value |-> 0]
             ELSE [raised |-> FALSE, value |-> TheValue(parsed)] :
                parsed \in {FloatOf(amount_str) :
                               amount_str \in {CleanAmount(TheValue(amount_value))}}} : TRUE

\* date_formats, each as its separator and the order of its directives
date_formats ==
    <<[sep |-> "/", fields |-> <<"m", "d", "Y">>],
      [sep |-> "-", fields |-> <<"Y", "m", "d">>],
      [sep |-> "-", fields |-> <<"m", "d", "Y">>],
      [sep |-> "/", fields |-> <<"d", "m", "Y">>],
      [sep |-> "/", fields |-> <<"Y", "m", "d">>],
      [sep |-> "/", fields |-> <<"m", "d", "y">>],
      [sep |-> "-", fields |-> <<"d", "m", "Y">>]>>

\* The runs of text between the separators.
RECURSIVE SplitOn(_, _, _)
SplitOn(t, sep, field) ==
    IF t = <<>> THEN <<field>>
    ELSE IF Head(t) = sep THEN <<field>> \o SplitOn(Tail(t), sep, <<>>)
    ELSE SplitOn(Tail(t), sep, Append(field, Head(t)))

\* What a directive of strptime accepts: %m 1..12 and %d 1..31 in one or
\* two digits, %Y four digits, %y two digits.
DirectiveAccepts(directive, field) ==
    IF ~AllDigits(field) THEN FALSE
    ELSE IF directive = "m" THEN Len(field) \in 1..2 /\ Number(field) \in 1..12
    ELSE IF directive = "d" THEN Len(field) \in 1..2 /\ Number(field) \in 1..31
    ELSE IF directive = "Y" THEN Len(field) = 4 /\ Number(field) >= 1
    ELSE Len(field) = 2

\* %y: 69..99 are 1969..1999, 00..68 are 2000..2068
YearOf(directive, field) ==
    IF directive = "Y" THEN Number(field)
    ELSE IF Number(field) <= 68 THEN 2000 + Number(field) ELSE 1900 + Number(field)

IsLeap(y) == (y % 4 = 0 /\ y % 100 # 0) \/ y % 400 = 0

DaysInMonth(y, m) ==
    IF m = 2 THEN (IF IsLeap(y) THEN 29 ELSE 28)
    ELSE IF m \in {4, 6, 9, 11} THEN 30 ELSE 31

\* datetime.strptime(text, fmt).strftime('%Y-%m-%d'), Null for ValueError,
\* on the runs of text between the separators of fmt
StrptimeFields(parts, fmt) ==
    LET At(directive) ==
            parts[CHOOSE i \in 1..3 :
                     IF fmt.fields[i] = "y" THEN directive = "Y" ELSE fmt.fields[i] = directive]
        year == YearOf(IF "y" \in {fmt.fields[i] : i \in 1..3} THEN "y" ELSE "Y", At("Y"))
        month == Number(At("m"))
        day == Number(At("d"))
    IN IF Len(parts) # 3 THEN Null
       ELSE IF \E i \in 1..3 : ~DirectiveAccepts(fmt.fields[i], parts[i]) THEN Null
       ELSE IF day > DaysInMonth(year, month) THEN Null
       ELSE Some(year * 10000 + month * 100 + day)

Strptime(text, fmt) ==
    CHOOSE parsed \in {StrptimeFields(parts, fmt) : parts \in {SplitOn(text, fmt.sep, <<>>)}} :
        TRUE

\* pd.to_datetime(date_value), the fallback after every format failed:
\* it refuses each text of the model that the formats refuse (a text with
\* a letter in place of a date, a month or day out of range).
ToDatetime(text) == Null

\* for fmt in date_formats: try ... except ValueError: continue
RECURSIVE TryFormats(_, _)
TryFormats(text, i) ==
    IF i > Len(date_formats) THEN ToDatetime(text)
    ELSE CHOOSE result \in {IF parsed # Null THEN parsed ELSE TryFormats(text, i + 1) :
                               parsed \in {Strptime(text, date_formats[i])}} : TRUE

\* _parse_date
ParseDate(date_value) ==
    IF date_value = Null THEN [raised |-> TRUE, value |-> 0]
    ELSE CHOOSE result \in
            {IF parsed = Null THEN [raised |-> TRUE, value |-> 0]
             ELSE [raised |-> FALSE, value |-> TheValue(parsed)] :
                parsed \in {TryFormats(Strip(TheValue(date_value)), 1)}} : TRUE

\* self.column_mapping, in the order of the dict
column_mapping ==
    <<[key |-> <<"D", "a", "t", "e">>, value |-> <<"t", "r", "a", "n", "s", "a", "c", "t", "i", "o", "n", "_", "d", "a", "t", "e">>],
      [key |-> <<"T", "r", "a", "n", "s", "a", "c", "t", "i", "o", "n", " ", "D", "a", "t", "e">>, value |-> <<"t", "r", "a", "n", "s", "a", "c", "t", "i", "o", "n", "_", "d", "a", "t", "e">>],
      [key |-> <<"T", "r", "a", "n", "s", "a", "c", "t", "i", "o", "n", "D", "a", "t", "e">>, value |-> <<"t", "r", "a", "n", "s", "a", "c", "t", "i", "o", "n", "_", "d", "a", "t", "e">>],
      [key |-> <<"D", "e", "s", "c", "r", "i", "p", "t", "i", "o", "n">>, value |-> <<"d", "e", "s", "c", "r", "i", "p", "t", "i", "o", "n">>],
      [key |-> <<"A", "m", "o", "u", "n", "t">>, value |-> <<"a", "m", "o", "u", "n", "t">>],
      [key |-> <<"B", "a", "l", "a", "n", "c", "e">>, value |-> <<"b", "a", "l", "a", "n", "c", "e">>],
      [key |-> <<"T", "r", "a", "n", "s", "a", "c", "t", "i", "o", "n", "T", "y", "p", "e">>, value |-> <<"t", "r", "a", "n", "s", "a", "c", "t", "i", "o", "n", "_", "t", "y", "p", "e">>],
      [key |-> <<"C", "a", "t", "e", "g", "o", "r", "i", "e", "s">>, value |-> <<"o", "r", "i", "g", "i", "n", "a", "l", "_", "c", "a", "t", "e", "g", "o", "r", "y">>]>>

\* _rename_columns: the first key that equals the column, both stripped
\* and lowered, gives its name; other columns keep theirs
RenameColumn(col) ==
    LET hits == {k \in 1..Len(column_mapping) :
                    LowerText(Strip(col)) = LowerText(Strip(column_mapping[k].key))}
    IN IF hits = {} THEN col
       ELSE column_mapping[CHOOSE k \in hits : \A o \in hits : k <= o].value

RECURSIVE RenameColumns(_)
RenameColumns(columns) ==
    IF columns = <<>> THEN <<>>
    ELSE <<RenameColumn(Head(columns))>> \o RenameColumns(Tail(columns))

\* The positions of the columns called name.
Positions(columns, name) == {i \in 1..Len(columns) : columns[i] = name}

\* row[name] where one column has the name
RowValue(columns, row, name) == row[CHOOSE i \in Positions(columns, name) : TRUE]

\* Required columns, the check of the amount column left out.
RequiredColumnsWithoutAmount == {<<"t", "r", "a", "n", "s", "a", "c", "t", "i", "o", "n", "_", "d", "a", "t", "e">>, <<"d", "e", "s", "c", "r", "i", "p", "t", "i", "o", "n">>}

\* Required columns
RequiredColumns == {<<"t", "r", "a", "n", "s", "a", "c", "t", "i", "o", "n", "_", "d", "a", "t", "e">>, <<"d", "e", "s", "c", "r", "i", "p", "t", "i", "o", "n">>, <<"a", "m", "o", "u", "n", "t">>}

\* str(row['description']); NaN prints as nan
StrOfCell(cell) == IF cell = Null THEN <<"n", "a", "n">> ELSE TheValue(cell)

\* row[name] raises KeyError when no column has the name and gives a
\* Series when several have it, on which pd.isna and pd.notna give a Series
\* whose truth value raises ValueError.
DateOf(columns, row) ==
    IF Cardinality(Positions(columns, <<"t", "r", "a", "n", "s", "a", "c", "t", "i", "o", "n", "_", "d", "a", "t", "e">>)) # 1
    THEN [raised |-> TRUE, value |-> 0]
    ELSE ParseDate(RowValue(columns, row, <<"t", "r", "a", "n", "s", "a", "c", "t", "i", "o", "n", "_", "d", "a", "t", "e">>))

AmountOf(columns, row) ==
    IF Cardinality(Positions(columns, <<"a", "m", "o", "u", "n", "t">>)) # 1
    THEN [raised |-> TRUE, value |-> 0]
    ELSE ParseAmount(RowValue(columns, row, <<"a", "m", "o", "u", "n", "t">>))

\* balance = None; if 'balance' in row and pd.notna(row['balance']): ...
BalanceOf(columns, row) ==
    IF Positions(columns, <<"b", "a", "l", "a", "n", "c", "e">>) = {} THEN [raised |-> FALSE, value |-> Null]
    ELSE IF Cardinality(Positions(columns, <<"b", "a", "l", "a", "n", "c", "e">>)) > 1 THEN [raised |-> TRUE, value |-> Null]
    ELSE IF RowValue(columns, row, <<"b", "a", "l", "a", "n", "c", "e">>) = Null THEN [raised |-> FALSE, value |-> Null]
    ELSE CHOOSE result \in
            {[raised |-> parsed.raised, value |-> Some(parsed.value)] :
                parsed \in {ParseAmount(RowValue(columns, row, <<"b", "a", "l", "a", "n", "c", "e">>))}} : TRUE

\* str(row['description']).strip()  (No file of the model repeats the
\* description column.)
DescriptionOf(columns, row) ==
    IF Positions(columns, <<"d", "e", "s", "c", "r", "i", "p", "t", "i", "o", "n">>) = {} THEN [raised |-> TRUE, value |-> <<>>]
    ELSE [raised |-> FALSE, value |-> Strip(StrOfCell(RowValue(columns, row, <<"d", "e", "s", "c", "r", "i", "p", "t", "i", "o", "n">>)))]

\* The record of a row from its parsed cells, when none of them raised.
Transaction(txn_date, amount, balance, description, csv_hash) ==
    IF txn_date.raised THEN [raised |-> TRUE, transaction |-> <<>>]
    ELSE IF amount.raised THEN [raised |-> TRUE, transaction |-> <<>>]
    ELSE IF balance.raised THEN [raised |-> TRUE, transaction |-> <<>>]
    ELSE IF description.raised THEN [raised |-> TRUE, transaction |-> <<>>]
    ELSE [raised |-> FALSE,
          transaction |->
              <<[transaction_date |-> txn_date.value,
                 description |-> description.value,
                 amount |-> amount.value,
                 balance |-> balance.value,
                 category |-> Some(CategorizeTransaction(description.value, amount.value)),
                 source |-> Some(ExtractSource(description.value, amount.value)),
                 csv_hash |-> Some(csv_hash)]>>]

\* The body of the try block for one row, each cell parsed once.
NormalizeRow(columns, row, csv_hash) ==
    CHOOSE result \in
        {Transaction(txn_date, amount, balance, description, csv_hash) :
            txn_date \in {DateOf(columns, row)},
            amount \in {AmountOf(columns, row)},
            balance \in {BalanceOf(columns, row)},
            description \in {DescriptionOf(columns, row)}} : TRUE

RECURSIVE ProcessRows(_, _, _, _, _)

\* except Exception: break
OnRowErrorAborts(columns, rows, csv_hash, i, done) == done

\* except Exception: print(...); continue
OnRowError(columns, rows, csv_hash, i, done) ==
    ProcessRows(columns, rows, csv_hash, i + 1, done)

\* for _, row in df.iterrows(): from row i on, done the records so far
ProcessRows(columns, rows, csv_hash, i, done) ==
    IF i > Len(rows) THEN done
    ELSE CHOOSE result \in
            {IF row.raised THEN OnRowError(columns, rows, csv_hash, i, done)
             ELSE ProcessRows(columns, rows, csv_hash, i + 1, done \o row.transaction) :
                row \in {NormalizeRow(columns, rows[i], csv_hash)}} : TRUE

\* _process_dataframe
ProcessDataframe(columns, rows, csv_hash) ==
    IF \E name \in RequiredColumns : Positions(columns, name) = {}
    THEN [raised |-> TRUE, transactions |-> <<>>]
    ELSE [raised |-> FALSE, transactions |-> ProcessRows(columns, rows, csv_hash, 1, <<>>)]

\* df.dropna(how='all')
RECURSIVE DropBlankRows(_)
DropBlankRows(rows) ==
    IF rows = <<>> THEN <<>>
    ELSE IF \A j \in 1..Len(Head(rows)) : Head(rows)[j] = Null
         THEN DropBlankRows(Tail(rows))
         ELSE <<Head(rows)>> \o DropBlankRows(Tail(rows))

\* _generate_csv_hash: the digest of the bytes of the file, which stands
\* for them (no two files of the model collide).
GenerateCsvHash(file) == file

\* parse_csv on the table pd.read_csv reads: the header cells and, for
\* each line, its cells
ParseCsv(file) ==
    CHOOSE parsed \in
        {ProcessDataframe(columns, rows, GenerateCsvHash(file)) :
            columns \in {RenameColumns(file.columns)},
            rows \in {DropBlankRows(file.rows)}} : TRUE

\* if not transactions: return 0, 0 / database.insert_transactions(...)
Inserted(b, stored, nid, parsed) ==
    IF parsed.raised
    THEN [raised |-> TRUE, rows |-> stored, nid |-> nid, inserted |-> 0, skipped |-> 0]
    ELSE IF parsed.transactions = <<>>
    THEN [raised |-> FALSE, rows |-> stored, nid |-> nid, inserted |-> 0, skipped |-> 0]
    ELSE CHOOSE result \in
            {[raised |-> FALSE, rows |-> res.rows, nid |-> res.nid,
              inserted |-> res.inserted, skipped |-> res.skipped] :
                res \in {InsertResult(b, stored, nid, parsed.transactions)}} : TRUE

\* import_csv_to_database: the store after it and what it returns
ImportCsv(b, stored, nid, file) ==
    CHOOSE result \in {Inserted(b, stored, nid, parsed) : parsed \in {ParseCsv(file)}} : TRUE

\* A call that was made and has not returned.
Pending(fn) == IF last.op = "call" THEN last.fn = fn ELSE FALSE

CategorizeTransactionCall ==
    /\ Pending("_categorize_transaction")
    /\ last' = [op |-> "_categorize_transaction", description |-> last.description,
                amount |-> last.amount,
                category |-> CategorizeTransaction(last.description, last.amount)]
    /\ UNCHANGED <<backend, transactions, next_id, person_mappings, next_mapping_id,
                   conn, users, jwks_cache, now, environ>>

ParseCsvCall ==
    /\ Pending("parse_csv")
    /\ \E parsed \in {ParseCsv(last.file)} :
          last' = [op |-> "parse_csv", file |-> last.file, raised |-> parsed.raised,
                   transactions |-> parsed.transactions]
    /\ UNCHANGED <<backend, transactions, next_id, person_mappings, next_mapping_id,
                   conn, users, jwks_cache, now, environ>>

ImportCsvCall ==
    /\ Pending("import_csv_to_database")
    /\ \E res \in {ImportCsv(backend, transactions, next_id, last.file)} :
          /\ transactions' = res.rows
          /\ next_id' = res.nid
          /\ last' = [op |-> "import_csv_to_database", file |-> last.file,
                      raised |-> res.raised, inserted |-> res.inserted,
                      skipped |-> res.skipped]
    /\ UNCHANGED <<backend, person_mappings, next_mapping_id, conn, users, jwks_cache,
                   now, environ>>

\* Header lines with every required column: each column as its header
\* cell and the cell of a line it holds (d date, x description, a amount,
\* b balance).
Headers ==
    {<<<<<<"D", "a", "t", "e">>, "d">>, <<<<"D", "e", "s", "c", "r", "i", "p", "t", "i", "o", "n">>, "x">>, <<<<"A", "m", "o", "u", "n", "t">>, "a">>, <<<<"B", "a", "l", "a", "n", "c", "e">>, "b">>>>,
     <<<<<<" ", "t", "r", "a", "n", "s", "a", "c", "t", "i", "o", "n", " ", "d", "a", "t", "e", " ">>, "d">>, <<<<"D", "E", "S", "C", "R", "I", "P", "T", "I", "O", "N">>, "x">>, <<<<"a", "m", "o", "u", "n", "t">>, "a">>>>,
     <<<<<<"D", "a", "t", "e">>, "d">>, <<<<"T", "r", "a", "n", "s", "a", "c", "t", "i", "o", "n", "D", "a", "t", "e">>, "d">>, <<<<"D", "e", "s", "c", "r", "i", "p", "t", "i", "o", "n">>, "x">>, <<<<"A", "m", "o", "u", "n", "t">>, "a">>>>}

\* Header lines that lack a required column.
IncompleteHeaders ==
    {<<<<<<"D", "a", "t", "e">>, "d">>, <<<<"D", "e", "s", "c", "r", "i", "p", "t", "i", "o", "n">>, "x">>>>,
     <<<<<<"P", "o", "s", "t", "e", "d">>, "d">>, <<<<"D", "e", "s", "c", "r", "i", "p", "t", "i", "o", "n">>, "x">>, <<<<"A", "m", "o", "u", "n", "t">>, "a">>>>,
     <<<<<<"D", "a", "t", "e">>, "d">>, <<<<"A", "m", "o", "u", "n", "t">>, "a">>, <<<<"M", "e", "m", "o">>, "x">>>>}

\* Lines of the files, by the cells d, x, a, b.
Lines ==
    {[d |-> Some(<<"0", "1", "/", "0", "5", "/", "2", "0", "2", "4">>), x |-> Some(<<"A", "T", "M", " ", "F", "e", "e">>), a |-> Some(<<"(", "5", ")">>), b |-> Null],
     [d |-> Some(<<"2", "0", "2", "4", "-", "0", "2", "-", "2", "0">>), x |-> Some(<<"P", "a", "y", "r", "o", "l", "l">>), a |-> Some(<<"$", "1", ",", "0", "0", "0", ".", "5">>), b |-> Some(<<"2", ".", "5">>)],
     [d |-> Null, x |-> Some(<<"z", "z">>), a |-> Some(<<"1">>), b |-> Null],
     [d |-> Some(<<"1", "3", "/", "0", "1", "/", "2", "0", "2", "4">>), x |-> Null, a |-> Null, b |-> Null],
     [d |-> Some(<<"1", "/", "5", "/", "2", "4">>), x |-> Some(<<"z", "z">>), a |-> Some(<<"x">>), b |-> Null],
     [d |-> Some(<<"x">>), x |-> Some(<<"z", "z">>), a |-> Some(<<"1">>), b |-> Null],
     [d |-> Some(<<"0", "1", "/", "0", "5", "/", "2", "0", "2", "4">>), x |-> Some(<<"z", "z">>), a |-> Some(<<"1">>), b |-> Some(<<"x">>)],
     [d |-> Null, x |-> Null, a |-> Null, b |-> Null]}

CsvFile(header, lines) ==
    [columns |-> [j \in 1..Len(header) |-> header[j][1]],
     rows |-> [i \in 1..Len(lines) |-> [j \in 1..Len(header) |-> lines[i][header[j][2]]]]]

\* The files with an incomplete header line fail before a line is read:
\* they come with lines of two kinds only.
ShortLines ==
    {[d |-> Some(<<"0", "1", "/", "0", "5", "/", "2", "0", "2", "4">>), x |-> Some(<<"A", "T", "M", " ", "F", "e", "e">>), a |-> Some(<<"(", "5", ")">>), b |-> Null],
     [d |-> Null, x |-> Some(<<"z", "z">>), a |-> Some(<<"1">>), b |-> Null]}

CsvFiles ==
    {CsvFile(header, lines) : header \in Headers, lines \in SeqsUpTo(Lines, MaxRows)}
        \cup {CsvFile(header, lines) :
                 header \in IncompleteHeaders, lines \in SeqsUpTo(ShortLines, MaxRows)}

\* The file whose import left the rows the store starts with.
SeedFiles ==
    {CsvFile(header, lines) :
        header \in {<<<<<<"D", "a", "t", "e">>, "d">>, <<<<"D", "e", "s", "c", "r", "i", "p", "t", "i", "o", "n">>, "x">>, <<<<"A", "m", "o", "u", "n", "t">>, "a">>, <<<<"B", "a", "l", "a", "n", "c", "e">>, "b">>>>},
        lines \in {<<>>,
                   <<[d |-> Some(<<"0", "1", "/", "0", "5", "/", "2", "0", "2", "4">>), x |-> Some(<<"A", "T", "M", " ", "F", "e", "e">>), a |-> Some(<<"(", "5", ")">>), b |-> Null],
                     [d |-> Some(<<"2", "0", "2", "4", "-", "0", "2", "-", "2", "0">>), x |-> Some(<<"P", "a", "y", "r", "o", "l", "l">>), a |-> Some(<<"$", "1", ",", "0", "0", "0", ".", "5">>), b |-> Some(<<"2", ".", "5">>)]>>}}


MaxWords == 2        \* most words of a description handed to the classifier

Words == {<<"A", "T", "M">>, <<"G", "r", "o", "c", "e", "r", "y">>, <<"G", "A", "S">>, <<"w", "a", "t", "e", "r">>, <<"x", "f", "e", "r">>, <<"F", "e", "e">>, <<"P", "a", "y", "r", "o", "l", "l">>, <<"d", "i", "v", "i", "d", "e", "n", "d">>, <<"z", "z">>}

ClassifierDescriptions ==
    {JoinWords(ws) : ws \in SeqsUpTo(Words, MaxWords)} \cup {<<"A", "T", "M", " ", "W", "I", "T", "H", "D", "R", "A", "W", "A", "L", " ", "G", "R", "O", "C", "E", "R", "Y">>}

ClassifierAmounts == {-40000, 0, 1000}

\* A call of the classifier or of the parser by itself, made on a new
\* store, or an import into a store that an earlier import may have filled.
InitCsv ==
    /\ Started
    /\ backend \in Backends
    /\ person_mappings = {}
    /\ next_mapping_id = 1
    /\ conn = <<>>
    /\ \/ /\ transactions = {} /\ next_id = 1
          /\ \E description \in ClassifierDescriptions, amount \in ClassifierAmounts :
                last = [op |-> "call", fn |-> "_categorize_transaction",
                        description |-> description, amount |-> amount]
       \/ /\ transactions = {} /\ next_id = 1
          /\ \E file \in CsvFiles :
                last = [op |-> "call", fn |-> "parse_csv", file |-> file]
       \/ /\ \E seed \in SeedFiles :
                \E res \in {ImportCsv(backend, {}, 1, seed)} :
                   transactions = res.rows /\ next_id = res.nid
          /\ \E file \in CsvFiles :
                last = [op |-> "call", fn |-> "import_csv_to_database", file |-> file]

NextCsv ==
    \/ CategorizeTransactionCall
    \/ ParseCsvCall
    \/ ImportCsvCall

SpecCsv == InitCsv /\ [][NextCsv]_vars

\* keyword occurs in text, the case of both put aside.
OccursIgnoringCase(keyword, text) ==
    \E i \in 0..(Len(text) - Len(keyword)) :
        \A j \in 1..Len(keyword) : Lower(text[i + j]) = Lower(keyword[j])

\* The rule lists in their listed order.
DepositRules ==
    <<[label |-> <<"I", "n", "c", "o", "m", "e">>,
       keywords |-> {<<"d", "i", "r", "e", "c", "t", " ", "d", "e", "p">>, <<"d", "e", "p", "o", "s", "i", "t">>, <<"p", "a", "y", "r", "o", "l", "l">>, <<"s", "a", "l", "a", "r", "y">>}],
      [label |-> <<"T", "r", "a", "n", "s", "f", "e", "r", " ", "I", "n">>,
       keywords |-> {<<"t", "r", "a", "n", "s", "f", "e", "r">>, <<"x", "f", "e", "r">>}],
      [label |-> <<"I", "n", "t", "e", "r", "e", "s", "t", "/", "D", "i", "v", "i", "d", "e", "n", "d">>,
       keywords |-> {<<"i", "n", "t", "e", "r", "e", "s", "t">>, <<"d", "i", "v", "i", "d", "e", "n", "d">>}]>>

WithdrawalRules ==
    <<[label |-> <<"A", "T", "M", "/", "C", "a", "s", "h">>,
       keywords |-> {<<"a", "t", "m">>, <<"w", "i", "t", "h", "d", "r", "a", "w", "a", "l">>}],
      [label |-> <<"G", "r", "o", "c", "e", "r", "i", "e", "s">>,
       keywords |-> {<<"g", "r", "o", "c", "e", "r", "y">>, <<"s", "u", "p", "e", "r", "m", "a", "r", "k", "e", "t">>, <<"f", "o", "o", "d">>}],
      [label |-> <<"G", "a", "s", "/", "F", "u", "e", "l">>,
       keywords |-> {<<"g", "a", "s">>, <<"f", "u", "e", "l">>, <<"s", "h", "e", "l", "l">>, <<"e", "x", "x", "o", "n">>, <<"c", "h", "e", "v", "r", "o", "n">>}],
      [label |-> <<"D", "i", "n", "i", "n", "g">>,
       keywords |-> {<<"r", "e", "s", "t", "a", "u", "r", "a", "n", "t">>, <<"c", "a", "f", "e">>, <<"c", "o", "f", "f", "e", "e">>}],
      [label |-> <<"U", "t", "i", "l", "i", "t", "i", "e", "s">>,
       keywords |-> {<<"u", "t", "i", "l", "i", "t", "y">>, <<"e", "l", "e", "c", "t", "r", "i", "c">>, <<"g", "a", "s">>, <<"w", "a", "t", "e", "r">>}],
      [label |-> <<"T", "r", "a", "n", "s", "f", "e", "r", " ", "O", "u", "t">>,
       keywords |-> {<<"t", "r", "a", "n", "s", "f", "e", "r">>, <<"x", "f", "e", "r">>}],
      [label |-> <<"C", "h", "e", "c", "k">>,
       keywords |-> {<<"c", "h", "e", "c", "k">>, <<"c", "h", "e", "q", "u", "e">>}],
      [label |-> <<"F", "e", "e", "s">>,
       keywords |-> {<<"f", "e", "e">>, <<"c", "h", "a", "r", "g", "e">>}]>>

\* The label of the first rule of the list with a keyword in the
\* description, the default when there is none.
FirstRuleLabel(rules, default, description) ==
    LET hits == {i \in 1..Len(rules) :
                    \E keyword \in rules[i].keywords : OccursIgnoringCase(keyword, description)}
    IN IF hits = {} THEN default
       ELSE rules[CHOOSE i \in hits : \A o \in hits : i <= o].label

\* C17: the category of (description, amount) is the label of the first
\* rule, in the listed order of the deposit list (amount > 0) or of the
\* withdrawal list (amount <= 0, zero included), one of whose keywords
\* occurs in the description whatever the case, and the default label of
\* the list when no rule matches.
C17_FirstRuleWins ==
    last.op = "_categorize_transaction" =>
        last.category =
            IF last.amount > 0
            THEN FirstRuleLabel(DepositRules, <<"O", "t", "h", "e", "r", " ", "I", "n", "c", "o", "m", "e">>, last.description)
            ELSE FirstRuleLabel(WithdrawalRules, <<"O", "t", "h", "e", "r", " ", "E", "x", "p", "e", "n", "s", "e">>, last.description)

\* "ATM WITHDRAWAL GROCERY" with a negative amount was given "ATM/Cash".
C17_Witness ==
    /\ last.op = "_categorize_transaction"
    /\ last.description = <<"A", "T", "M", " ", "W", "I", "T", "H", "D", "R", "A", "W", "A", "L", " ", "G", "R", "O", "C", "E", "R", "Y">>
    /\ last.amount < 0
    /\ last.category = <<"A", "T", "M", "/", "C", "a", "s", "h">>

\* A required column is absent from the file after the column mapping.
MissingRequired(file) ==
    \E name \in {<<"t", "r", "a", "n", "s", "a", "c", "t", "i", "o", "n", "_", "d", "a", "t", "e">>, <<"d", "e", "s", "c", "r", "i", "p", "t", "i", "o", "n">>, <<"a", "m", "o", "u", "n", "t">>} :
        \A i \in 1..Len(file.columns) : RenameColumn(file.columns[i]) # name

\* C18: when transaction_date, description or amount is absent after the
\* column mapping, parse_csv raises and returns no record, and
\* import_csv_to_database raises without an insert: the store is as it was.
C18_SchemaErrorFailsWhole ==
    [][/\ (Pending("parse_csv") /\ MissingRequired(last.file)) =>
              (last'.raised /\ last'.transactions = <<>>)
       /\ (Pending("import_csv_to_database") /\ MissingRequired(last.file)) =>
              (/\ last'.raised
               /\ last'.inserted = 0
               /\ transactions' = transactions
               /\ next_id' = next_id)]_vars

\* An import of a file with lines and without an amount column raised
\* over a store that holds rows.
C18_Witness ==
    /\ last.op = "import_csv_to_database"
    /\ last.raised
    /\ last.file.columns = <<<<"D", "a", "t", "e">>, <<"D", "e", "s", "c", "r", "i", "p", "t", "i", "o", "n">>>>
    /\ Len(last.file.rows) = 2
    /\ transactions # {}

\* What line i of the last parsed file gives when it is the only line.
Alone(i) ==
    ProcessDataframe(RenameColumns(last.file.columns), <<last.file.rows[i]>>,
                     GenerateCsvHash(last.file)).transactions

RECURSIVE EachAlone(_)
EachAlone(i) == IF i = 0 THEN <<>> ELSE EachAlone(i - 1) \o Alone(i)

\* C19: for a file with the required columns, parse_csv returns, in the
\* order of the lines, the record of each line that normalizes and
\* nothing for a line that fails; what a line gives is what it gives as
\* the only line of the file.
C19_RowsParseIndependently ==
    (last.op = "parse_csv" /\ ~MissingRequired(last.file)) =>
        /\ ~last.raised
        /\ last.transactions = EachAlone(Len(last.file.rows))

\* A line without a date before a good line: one record, of the second.
C19_Witness ==
    /\ last.op = "parse_csv"
    /\ ~MissingRequired(last.file)
    /\ Len(last.file.rows) = 2
    /\ Alone(1) = <<>>
    /\ Alone(2) # <<>>
    /\ last.transactions = Alone(2)

\* The cell of the only line of the last parsed file in the column
\* mapped to name.
OnlyCell(name) == RowValue(RenameColumns(last.file.columns), last.file.rows[1], name)

\* The file has each of the columns once, and no balance column.
PlainColumns(file) ==
    /\ \A name \in {<<"t", "r", "a", "n", "s", "a", "c", "t", "i", "o", "n", "_", "d", "a", "t", "e">>, <<"d", "e", "s", "c", "r", "i", "p", "t", "i", "o", "n">>, <<"a", "m", "o", "u", "n", "t">>} :
          Cardinality(Positions(RenameColumns(file.columns), name)) = 1
    /\ Positions(RenameColumns(file.columns), <<"b", "a", "l", "a", "n", "c", "e">>) = {}

\* C20: a line whose amount cell is missing is emitted with amount 0, a
\* line whose amount cell is present and holds no number is skipped, and a
\* line whose date cell is missing is skipped.
C20_AmountAsymmetry ==
    (last.op = "parse_csv" /\ PlainColumns(last.file) /\ Len(last.file.rows) = 1) =>
        /\ OnlyCell(<<"t", "r", "a", "n", "s", "a", "c", "t", "i", "o", "n", "_", "d", "a", "t", "e">>) = Null => last.transactions = <<>>
        /\ (IF OnlyCell(<<"a", "m", "o", "u", "n", "t">>) = Null THEN FALSE
            ELSE \A i \in 1..Len(TheValue(OnlyCell(<<"a", "m", "o", "u", "n", "t">>))) :
                    ~IsDigit(TheValue(OnlyCell(<<"a", "m", "o", "u", "n", "t">>))[i])) =>
              last.transactions = <<>>
        /\ (OnlyCell(<<"a", "m", "o", "u", "n", "t">>) = Null
              /\ OnlyCell(<<"t", "r", "a", "n", "s", "a", "c", "t", "i", "o", "n", "_", "d", "a", "t", "e">>) \in {Some(<<"0", "1", "/", "0", "5", "/", "2", "0", "2", "4">>), Some(<<"2", "0", "2", "4", "-", "0", "2", "-", "2", "0">>), Some(<<"1", "3", "/", "0", "1", "/", "2", "0", "2", "4">>), Some(<<"1", "/", "5", "/", "2", "4">>)}) =>
              (Len(last.transactions) = 1 /\ last.transactions[1].amount = 0)

\* A line with a date and no amount was emitted with amount 0.
C20_Witness ==
    /\ last.op = "parse_csv"
    /\ PlainColumns(last.file)
    /\ Len(last.file.rows) = 1
    /\ OnlyCell(<<"a", "m", "o", "u", "n", "t">>) = Null
    /\ Len(last.transactions) = 1
    /\ last.transactions[1].amount = 0
    /\ last.transactions[1].transaction_date = 20240113


(***************************************************************************)
(* migration_import.py: import_json_to_postgres                            *)
(***************************************************************************)
MaxExported == 2     \* most records of each table in an export file

\* INSERT INTO transactions (...) VALUES (...) of one exported record.
ImportedRow(txn, id) ==
    [id |-> id,
     transaction_date |-> txn.transaction_date,
     description |-> txn.description,
     amount |-> StoreAmount("pg", txn.amount),
     balance |-> StoreBalance("pg", txn.balance),
     category |-> txn.category,
     source |-> txn.source,
     notes |-> txn.notes,
     csv_hash |-> txn.csv_hash]

\* except errors.UniqueViolation: conn.rollback(); skipped += 1
\* The connection runs with autocommit off and commits after the loop, so
\* the rollback ends the transaction that holds every INSERT of the loop:
\* the table is again as committed.  The counter inserted is left as it is
\* and the sequence keeps the values it has handed out.
OnUniqueViolation(committed, st) ==
    [rows |-> committed, nid |-> st.nid + 1,
     inserted |-> st.inserted, skipped |-> st.skipped + 1]

\* for txn in transactions: try: cursor.execute(INSERT ...); inserted_txns += 1
RECURSIVE ImportTransactionsLoop(_, _, _, _)
ImportTransactionsLoop(committed, txns, i, st) ==
    IF i > Len(txns) THEN st
    ELSE IF UniqueConflict(st.rows, ImportedRow(txns[i], st.nid))
         THEN ImportTransactionsLoop(committed, txns, i + 1, OnUniqueViolation(committed, st))
         ELSE ImportTransactionsLoop(committed, txns, i + 1,
                                     OnInserted(st, ImportedRow(txns[i], st.nid)))

\* for m in mappings: try: cursor.execute(INSERT ...); inserted_mappings += 1
RECURSIVE ImportMappingsLoop(_, _, _, _)
ImportMappingsLoop(committed, maps, i, st) ==
    IF i > Len(maps) THEN st
    ELSE IF MappingConflict(st.rows, maps[i].person_name, maps[i].keyword)
         THEN ImportMappingsLoop(committed, maps, i + 1, OnUniqueViolation(committed, st))
         ELSE ImportMappingsLoop(committed, maps, i + 1,
                  OnInserted(st, [id |-> st.nid, person_name |-> maps[i].person_name,
                                  keyword |-> maps[i].keyword]))

\* An export file: the records migration_export.py writes from a SQLite
\* store, so no two transactions share date, description and amount and
\* no two mappings share name and keyword.
ExportedTransactions ==
    {[transaction_date |-> c.transaction_date, description |-> c.description,
      amount |-> c.amount, balance |-> c.balance, category |-> c.category,
      source |-> c.source, notes |-> Null, csv_hash |-> c.csv_hash] : c \in Candidates}

ExportedMappings ==
    {[person_name |-> n, keyword |-> <<"a">>] : n \in {<<"P">>, <<"Q">>}}

DistinctSeqs(S, n) ==
    {f \in SeqsUpTo(S, n) : \A i, j \in DOMAIN f : i # j => f[i] # f[j]}

ExportFiles ==
    {[transactions |-> t, person_mappings |-> m] :
        t \in DistinctSeqs(ExportedTransactions, MaxExported),
        m \in DistinctSeqs(ExportedMappings, MaxExported)}

\* input("Continue and skip duplicates? (y/N): ")
Responses == {<<"y">>, <<"Y">>, <<>>}

\* import_json_to_postgres(input_path, dry_run = False) with the file there
\* and the connection made.  response is what the operator types when asked.
ImportJsonToPostgres(file, response) ==
    /\ next_id + Len(file.transactions) <= MaxId + 1
    /\ next_mapping_id + Len(file.person_mappings) <= MaxMappingId + 1
    /\ IF backend # "pg"
       THEN /\ last' = [op |-> "import_json_to_postgres", file |-> file,
                        response |-> response, returned |-> FALSE]
            /\ UNCHANGED <<transactions, next_id, person_mappings, next_mapping_id>>
       ELSE IF (transactions # {} \/ person_mappings # {}) /\ LowerText(response) # <<"y">>
       THEN /\ last' = [op |-> "import_json_to_postgres", file |-> file,
                        response |-> response, returned |-> FALSE]
            /\ UNCHANGED <<transactions, next_id, person_mappings, next_mapping_id>>
       ELSE \E t \in {ImportTransactionsLoop(transactions, file.transactions, 1,
                         [rows |-> transactions, nid |-> next_id,
                          inserted |-> 0, skipped |-> 0])} :
            \E m \in {ImportMappingsLoop(person_mappings, file.person_mappings, 1,
                         [rows |-> person_mappings, nid |-> next_mapping_id,
                          inserted |-> 0, skipped |-> 0])} :
               /\ transactions' = t.rows
               /\ next_id' = t.nid
               /\ person_mappings' = m.rows
               /\ next_mapping_id' = m.nid
               /\ last' = [op |-> "import_json_to_postgres", file |-> file,
                           response |-> response, returned |-> TRUE,
                           existing_txn_count |-> Cardinality(transactions),
                           existing_mapping_count |-> Cardinality(person_mappings),
                           inserted_txns |-> t.inserted, skipped_txns |-> t.skipped,
                           inserted_mappings |-> m.inserted,
                           skipped_mappings |-> m.skipped,
                           final_txn_count |-> Cardinality(t.rows),
                           final_mapping_count |-> Cardinality(m.rows)]
    /\ UNCHANGED <<backend, conn, users, jwks_cache, now, environ>>

NextMigration ==
    \E file \in ExportFiles, response \in Responses : ImportJsonToPostgres(file, response)

SpecMigration == Init /\ [][NextMigration]_vars

\* C25: in a run of import_json_to_postgres that goes through, the table
\* transactions ends with as many rows more than it began with as the run
\* reports inserted, and so does the table person_mappings: a duplicate
\* discards no row inserted earlier in the run.
C25_ImportKeepsInsertedRows ==
    (last.op = "import_json_to_postgres" /\ last.returned) =>
        /\ last.final_txn_count = last.existing_txn_count + last.inserted_txns
        /\ last.final_mapping_count = last.existing_mapping_count + last.inserted_mappings


(***************************************************************************)
(* auth_middleware.py: the JWKS cache, require_auth and require_admin      *)
(***************************************************************************)
\* A key set is given by the key ids it holds; the token signed with the
\* private key of kid verifies under the public key of kid and no other.
KeySets == {[keys |-> {"k1"}], [keys |-> {"k2"}]}

\* requests.get(CLERK_JWKS_URL, timeout=10), raise_for_status() and json():
\* a RequestException, or the key set that the body holds.
FetchOutcomes ==
    {[ok |-> FALSE, body |-> Null]} \cup {[ok |-> TRUE, body |-> Some(k)] : k \in KeySets}

\* A get_jwks that asks the network whatever the cache holds.
GetJwksAlwaysFetches(cache, env, outcome) ==
    IF ~env.CLERK_JWKS_URL
    THEN [cache |-> cache, raised |-> TRUE, fetched |-> FALSE, returned |-> Null]
    ELSE IF ~outcome.ok
    THEN [cache |-> cache, raised |-> TRUE, fetched |-> TRUE, returned |-> Null]
    ELSE [cache |-> outcome.body, raised |-> FALSE, fetched |-> TRUE,
          returned |-> outcome.body]

\* get_jwks: the cache after the call, whether it raised ValueError,
\* whether it asked the network, and what it returned.
GetJwksResult(cache, env, outcome) ==
    IF cache # Null
    THEN [cache |-> cache, raised |-> FALSE, fetched |-> FALSE, returned |-> cache]
    ELSE IF ~env.CLERK_JWKS_URL
    THEN [cache |-> cache, raised |-> TRUE, fetched |-> FALSE, returned |-> Null]
    ELSE IF ~outcome.ok
    THEN [cache |-> cache, raised |-> TRUE, fetched |-> TRUE, returned |-> Null]
    ELSE [cache |-> outcome.body, raised |-> FALSE, fetched |-> TRUE,
          returned |-> outcome.body]

GetJwks(outcome) ==
    /\ \E res \in {GetJwksResult(jwks_cache, environ, outcome)} :
          /\ jwks_cache' = res.cache
          /\ last' = [op |-> "get_jwks", raised |-> res.raised, fetched |-> res.fetched,
                      fetch |-> IF res.fetched THEN Some(outcome) ELSE Null,
                      returned |-> res.returned]
    /\ UNCHANGED <<backend, transactions, next_id, person_mappings, next_mapping_id, conn,
                   users, now, environ>>

ClearJwksCache ==
    /\ jwks_cache' = Null
    /\ last' = [op |-> "clear_jwks_cache"]
    /\ UNCHANGED <<backend, transactions, next_id, person_mappings, next_mapping_id, conn,
                   users, now, environ>>

\* A token: the kid of its header, the key it was signed with ("x" is no
\* key of Clerk), the sub of its payload and whether exp has passed.
Token(kid, signer, sub, expired) ==
    [kid |-> kid, signer |-> signer, sub |-> sub, expired |-> expired]

Tokens ==
    {Token(Some("k1"), "k1", "u1", FALSE),
     Token(Some("k1"), "k1", "u2", FALSE),
     Token(Some("k2"), "k2", "u1", FALSE),
     Token(Some("k1"), "x", "u1", FALSE),
     Token(Some("k1"), "k1", "u1", TRUE),
     Token(Null, "k1", "u1", FALSE)}

\* The Authorization header: None when absent, else its words.
AuthorizationHeaders ==
    {Null, Some(<<<<"B", "e", "a", "r", "e", "r">>>>),
     Some(<<<<"B", "a", "s", "i", "c">>, Token(Some("k1"), "k1", "u1", FALSE)>>),
     Some(<<<<"b", "e", "a", "r", "e", "r">>, Token(Some("k1"), "k1", "u1", FALSE)>>)}
        \cup {Some(<<<<"B", "e", "a", "r", "e", "r">>, t>>) : t \in Tokens}

\* get_token_from_request
GetTokenFromRequest(header) ==
    IF header = Null THEN Null
    ELSE IF Len(TheValue(header)) # 2 THEN Null
    ELSE IF LowerText(TheValue(header)[1]) # <<"b", "e", "a", "r", "e", "r">> THEN Null
    ELSE Some(TheValue(header)[2])

\* get_public_key, given what get_jwks did: the kid of the key found, None
\* for ValueError (no kid, get_jwks raised, key set without the kid, or a
\* body that is no object).
PublicKeyIn(token, jwks) ==
    IF jwks.raised THEN Null
    ELSE IF jwks.returned = Null THEN Null
    ELSE IF TheValue(token.kid) \in TheValue(jwks.returned).keys THEN token.kid
    ELSE Null

\* jwt.decode(token, public_key, algorithms=['RS256'], verify_exp): the
\* payload, None for InvalidTokenError or ExpiredSignatureError.
Decode(token, public_key) ==
    IF public_key = Null THEN Null
    ELSE IF token.signer # TheValue(public_key) THEN Null
    ELSE IF token.expired THEN Null
    ELSE Some([sub |-> token.sub])

\* verify_clerk_token: the cache after it and the payload, None when it
\* raised ValueError.
VerifyClerkToken(token, cache, env, outcome) ==
    IF token.kid = Null
    THEN [cache |-> cache, fetched |-> FALSE, payload |-> Null]
    ELSE CHOOSE res \in
            {[cache |-> jwks.cache, fetched |-> jwks.fetched,
              payload |-> Decode(token, PublicKeyIn(token, jwks))] :
                jwks \in {GetJwksResult(cache, env, outcome)}} : TRUE

\* The dev bypass of both decorators.
DevMode(env) == ~env.CLERK_JWKS_URL /\ env.FLASK_DEBUG

\* require_auth up to the call of the route: answer is the status the
\* decorator answers with, None when it calls the route.
RequireAuth(header, cache, env, outcome) ==
    IF DevMode(env)
    THEN [cache |-> cache, fetched |-> FALSE, answer |-> Null, sub |-> Some("dev-user")]
    ELSE IF GetTokenFromRequest(header) = Null
    THEN [cache |-> cache, fetched |-> FALSE, answer |-> Some(401), sub |-> Null]
    ELSE CHOOSE res \in
            {[cache |-> v.cache, fetched |-> v.fetched,
              answer |-> IF v.payload = Null THEN Some(401) ELSE Null,
              sub |-> IF v.payload = Null THEN Null ELSE Some(TheValue(v.payload).sub)] :
                v \in {VerifyClerkToken(TheValue(GetTokenFromRequest(header)),
                                        cache, env, outcome)}} : TRUE

\* db.get_user_by_auth_id
GetUserByAuthId(rows, auth_provider_id) ==
    {u \in rows : u.auth_provider_id = auth_provider_id}

\* require_admin up to the call of the route.  database.py has no
\* get_user_by_auth_id: with SQLite the lookup raises AttributeError
\* outside every try, which handle_exception answers with 500.
RequireAdmin(header, b, rows, cache, env, outcome) ==
    CHOOSE res \in
        {IF a.answer # Null \/ DevMode(env) THEN a
         ELSE [cache |-> a.cache, fetched |-> a.fetched, sub |-> a.sub,
               answer |-> IF b # "pg" THEN Some(500)
                          ELSE IF GetUserByAuthId(rows, TheValue(a.sub)) = {} THEN Some(403)
                          ELSE IF TheValue(GetUserByAuthId(rows, TheValue(a.sub))).role # "admin"
                               THEN Some(403)
                               ELSE Null] :
            a \in {RequireAuth(header, cache, env, outcome)}} : TRUE

(***************************************************************************)
(* app.py: the routes behind the decorators, the users and the webhook     *)
(***************************************************************************)
RequireAuthRoutes ==
    {"GET /api/transactions", "GET /api/transactions/search", "GET /api/statistics",
     "GET /api/recurring", "POST /api/projections", "GET /api/categories",
     "GET /api/sources", "GET /api/person-mappings", "GET /api/contributions",
     "GET /api/contributions/statistics", "GET /api/features", "GET /api/user/me"}

RequireAdminRoutes ==
    {"PATCH /api/transactions/<id>", "POST /api/import/csv", "POST /api/scrape",
     "POST /api/person-mappings", "DELETE /api/person-mappings/<id>",
     "GET /api/users", "PATCH /api/users/<auth_id>/role"}

Decorated(route, header, b, rows, cache, env, outcome) ==
    IF route \in RequireAdminRoutes
    THEN RequireAdmin(header, b, rows, cache, env, outcome)
    ELSE RequireAuth(header, cache, env, outcome)

\* What a request carries besides its Authorization header.
TheCandidate(x, h) ==
    [transaction_date |-> 20240105, description |-> x, amount |-> 1000, balance |-> Null,
     category |-> Some(<<"I", "n", "c">>), source |-> Some(<<"O">>),
     csv_hash |-> Some(h)]

AuthIds == {"u1", "u2"}

RoleBodies ==
    {<<>>} \cup {[k \in {"role"} |-> r] : r \in {"admin", "viewer", "owner"}}

Requests(route) ==
    CASE route = "PATCH /api/transactions/<id>" ->
            {[transaction_id |-> 1, data |-> [k \in {"category"} |-> Some(<<"E">>)]]}
      [] route = "POST /api/import/csv" ->
            {[parsed |-> <<TheCandidate(<<"A", "c">>, <<"h", "2">>)>>]}
      [] route = "POST /api/scrape" ->
            {[downloaded |-> Null], [downloaded |-> Some(<<TheCandidate(<<"A", "c">>, <<"h", "2">>)>>)]}
      [] route = "POST /api/person-mappings" ->
            {[data |-> [k \in {"person_name", "keyword"} |->
                           IF k = "keyword" THEN Some(<<"a">>) ELSE Some(<<"P">>)]]}
      [] route = "DELETE /api/person-mappings/<id>" -> {[mapping_id |-> 1]}
      [] route = "PATCH /api/users/<auth_id>/role" ->
            {[auth_id |-> a, data |-> d] : a \in AuthIds, d \in RoleBodies}
      [] OTHER -> {[none |-> TRUE]}

\* The tables a route may write.
Tables(rows, nid, maps, mid, urows) ==
    [transactions |-> rows, next_id |-> nid, person_mappings |-> maps,
     next_mapping_id |-> mid, users |-> urows]

Answer(db, status) == [db |-> db, status |-> status]

\* update_transaction (the route)
HandleUpdateTransaction(b, db, req) ==
    CHOOSE res \in
        {Answer([db EXCEPT !.transactions = u.rows],
                IF u.raised # "none" THEN 500 ELSE 200) :
            u \in {UpdateTransactionResult(b, db.transactions, req.transaction_id,
                                           req.data)}} : TRUE

\* import_csv and scrape_transactions after the file is there
HandleImport(b, db, parsed) ==
    CHOOSE res \in
        {Answer([db EXCEPT !.transactions = i.rows, !.next_id = i.nid], 200) :
            i \in {InsertResult(b, db.transactions, db.next_id, parsed)}} : TRUE

\* add_person_mapping (the route)
HandleAddPersonMapping(b, db, req) ==
    IF RouteValidation(req.data) # 200 THEN Answer(db, RouteValidation(req.data))
    ELSE CHOOSE res \in
            {Answer([db EXCEPT !.person_mappings = m.rows, !.next_mapping_id = m.nid],
                    CASE m.raised = "none" -> 200
                      [] m.raised = "IntegrityError" -> 409
                      [] OTHER -> 500) :
                m \in {AddPersonMappingResult(b, db.person_mappings, db.next_mapping_id,
                                              req.data["person_name"],
                                              req.data["keyword"])}} : TRUE

\* delete_person_mapping (the route)
HandleDeletePersonMapping(db, req) ==
    IF \E m \in db.person_mappings : m.id = req.mapping_id
    THEN Answer([db EXCEPT !.person_mappings =
                              {m \in db.person_mappings : m.id # req.mapping_id}], 200)
    ELSE Answer(db, 404)

\* UPDATE users SET role = %s WHERE auth_provider_id = %s
SetRole(rows, auth_provider_id, role) ==
    {IF u.auth_provider_id = auth_provider_id THEN [u EXCEPT !.role = role] ELSE u :
        u \in rows}

\* update_user_role (the route); database.py has no update_user_role
HandleUpdateUserRole(b, db, req) ==
    IF "role" \notin DOMAIN req.data THEN Answer(db, 400)
    ELSE IF req.data["role"] \notin {"admin", "viewer"} THEN Answer(db, 400)
    ELSE IF b # "pg" THEN Answer(db, 500)
    ELSE IF GetUserByAuthId(db.users, req.auth_id) = {} THEN Answer(db, 404)
    ELSE Answer([db EXCEPT !.users = SetRole(db.users, req.auth_id, req.data["role"])], 200)

\* The body of the route, called by its decorator.
Handle(route, b, env, db, req) ==
    CASE route = "PATCH /api/transactions/<id>" -> HandleUpdateTransaction(b, db, req)
      [] route = "POST /api/import/csv" ->
            IF env.VERCEL THEN Answer(db, 501) ELSE HandleImport(b, db, req.parsed)
      [] route = "POST /api/scrape" ->
            IF env.VERCEL THEN Answer(db, 501)
            ELSE IF req.downloaded = Null THEN Answer(db, 500)
            ELSE HandleImport(b, db, TheValue(req.downloaded))
      [] route = "POST /api/person-mappings" -> HandleAddPersonMapping(b, db, req)
      [] route = "DELETE /api/person-mappings/<id>" -> HandleDeletePersonMapping(db, req)
      [] route = "PATCH /api/users/<auth_id>/role" -> HandleUpdateUserRole(b, db, req)
      [] route = "GET /api/users" -> Answer(db, IF b # "pg" THEN 500 ELSE 200)
      [] route = "GET /api/user/me" -> Answer(db, IF b # "pg" THEN 500 ELSE 200)
      [] OTHER -> Answer(db, 200)

\* The sequences have a value left for every INSERT the route may make.
SequencesLeft(route) ==
    /\ route \in {"POST /api/import/csv", "POST /api/scrape"} => next_id < MaxId
    /\ route = "POST /api/person-mappings" => next_mapping_id < MaxMappingId

\* One request to a decorated route.  outcome is what the network gives
\* if the JWKS are asked for while it is served.
Request(route, header, req, outcome) ==
    /\ SequencesLeft(route)
    /\ \E d \in {Decorated(route, header, backend, users, jwks_cache, environ, outcome)} :
       \E h \in {IF d.answer # Null
                 THEN Answer(Tables(transactions, next_id, person_mappings,
                                    next_mapping_id, users), TheValue(d.answer))
                 ELSE Handle(route, backend, environ,
                             Tables(transactions, next_id, person_mappings,
                                    next_mapping_id, users), req)} :
          /\ jwks_cache' = d.cache
          /\ transactions' = h.db.transactions
          /\ next_id' = h.db.next_id
          /\ person_mappings' = h.db.person_mappings
          /\ next_mapping_id' = h.db.next_mapping_id
          /\ users' = h.db.users
          /\ last' = [op |-> "request", route |-> route, fetched |-> d.fetched,
                      sub |-> d.sub, called |-> d.answer = Null, status |-> h.status]
    /\ UNCHANGED <<backend, conn, now, environ>>

\* INSERT INTO users: email and auth_provider_id are UNIQUE NOT NULL.
UserConflict(rows, auth_provider_id, email) ==
    \E u \in rows : u.auth_provider_id = auth_provider_id \/ u.email = email

\* A webhook that takes the role from the payload.
CreatedRoleFromPayload(data) == IF "role" \in DOMAIN data THEN data["role"] ELSE "viewer"

\* role='viewer' in the call of db.create_user
CreatedRole(data) == "viewer"

\* Payloads of POST /api/webhooks/clerk: None for no JSON, else type and
\* data; data holds id and email (None when missing) and may hold more.
WebhookPayloads ==
    {Null}
        \cup {Some([type |-> t, data |-> d]) :
                 t \in {"user.created", "user.updated", "user.deleted", "session.created"},
                 d \in {[k \in {"id", "email"} |-> IF k = "id" THEN i ELSE e] :
                           i \in {Null} \cup {Some(a) : a \in AuthIds},
                           e \in {Null, Some("e1"), Some("e2")}}
                        \cup {[k \in {"id", "email", "role"} |->
                                 CASE k = "id" -> Some("u2")
                                   [] k = "email" -> Some("e2")
                                   [] OTHER -> "admin"]}}

\* clerk_webhook: the users after it and the status it answers with.
ClerkWebhookResult(b, rows, payload) ==
    IF payload = Null THEN [users |-> rows, status |-> 400]
    ELSE IF TheValue(payload).type # "user.created" THEN [users |-> rows, status |-> 200]
    ELSE IF TheValue(payload).data["id"] = Null THEN [users |-> rows, status |-> 400]
    ELSE IF TheValue(payload).data["email"] = Null THEN [users |-> rows, status |-> 400]
    ELSE IF b # "pg" THEN [users |-> rows, status |-> 500]
    ELSE IF GetUserByAuthId(rows, TheValue(TheValue(payload).data["id"])) # {}
    THEN [users |-> rows, status |-> 200]
    ELSE IF UserConflict(rows, TheValue(TheValue(payload).data["id"]),
                         TheValue(TheValue(payload).data["email"]))
    THEN [users |-> rows, status |-> 500]
    ELSE [users |-> rows \cup {[auth_provider_id |-> TheValue(TheValue(payload).data["id"]),
                                email |-> TheValue(TheValue(payload).data["email"]),
                                role |-> CreatedRole(TheValue(payload).data)]},
          status |-> 200]

ClerkWebhook(payload) ==
    /\ \E res \in {ClerkWebhookResult(backend, users, payload)} :
          /\ users' = res.users
          /\ last' = [op |-> "clerk_webhook", status |-> res.status]
    /\ UNCHANGED <<backend, transactions, next_id, person_mappings, next_mapping_id, conn,
                   jwks_cache, now, environ>>

\* The process environments: with Clerk configured (on Vercel or not), in
\* dev mode, and with neither CLERK_JWKS_URL nor FLASK_DEBUG.
Environments ==
    {[CLERK_JWKS_URL |-> TRUE, FLASK_DEBUG |-> FALSE, VERCEL |-> FALSE],
     [CLERK_JWKS_URL |-> TRUE, FLASK_DEBUG |-> FALSE, VERCEL |-> TRUE],
     [CLERK_JWKS_URL |-> FALSE, FLASK_DEBUG |-> TRUE, VERCEL |-> FALSE],
     [CLERK_JWKS_URL |-> FALSE, FLASK_DEBUG |-> FALSE, VERCEL |-> FALSE]}

\* The users table before the first request: empty, or the admin that
\* make_admin.py created, or that admin and a viewer.  database.py keeps no
\* users table.
InitialUsers(b) ==
    IF b # "pg" THEN {{}}
    ELSE {{},
          {[auth_provider_id |-> "u1", email |-> "e1", role |-> "admin"]},
          {[auth_provider_id |-> "u1", email |-> "e1", role |-> "admin"],
           [auth_provider_id |-> "u2", email |-> "e2", role |-> "viewer"]}}

\* The store the requests arrive at: one transaction and no mapping.
InitAuth ==
    /\ backend \in Backends
    /\ transactions = {NewRow(backend, TheCandidate(<<"a", "b">>, <<"h", "1">>), 1)}
    /\ next_id = 2
    /\ person_mappings = {}
    /\ next_mapping_id = 1
    /\ conn = <<>>
    /\ users \in InitialUsers(backend)
    /\ jwks_cache = Null
    /\ now = [year |-> 2024, month |-> 11]
    /\ environ \in Environments
    /\ last = NoCall

\* The routes on the transactions and the mappings, and the listing of users.
StoreRoutes == (RequireAuthRoutes \cup RequireAdminRoutes) \ {"PATCH /api/users/<auth_id>/role"}

\* The routes that write transactions or person mappings.
MutatingRoutes ==
    {"PATCH /api/transactions/<id>", "POST /api/import/csv", "POST /api/scrape",
     "POST /api/person-mappings", "DELETE /api/person-mappings/<id>"}

\* The routes on the users.
UserRoutes == {"GET /api/user/me", "GET /api/users", "PATCH /api/users/<auth_id>/role"}

\* What the network may give while a request is served: it is asked only
\* when a token comes with an empty cache.
FetchOutcomesFor(header) ==
    IF jwks_cache = Null /\ GetTokenFromRequest(header) # Null
    THEN FetchOutcomes
    ELSE {[ok |-> FALSE, body |-> Null]}

RequestTo(routes) ==
    \E route \in routes :
       \E header \in AuthorizationHeaders, req \in Requests(route) :
          \E outcome \in FetchOutcomesFor(header) : Request(route, header, req, outcome)

\* Requests to the routes of the store.
NextAuth == RequestTo(StoreRoutes)

SpecAuth == InitAuth /\ [][NextAuth]_vars

\* The key set is asked for directly and by the requests that carry a token.
NextJwks ==
    \/ \E outcome \in FetchOutcomes : GetJwks(outcome)
    \/ ClearJwksCache
    \/ RequestTo({"GET /api/transactions", "GET /api/users"})

SpecJwks == InitAuth /\ [][NextJwks]_vars

\* Webhook events and requests to the routes on the users.
NextUsers ==
    \/ \E payload \in WebhookPayloads : ClerkWebhook(payload)
    \/ RequestTo(UserRoutes)

SpecUsers == InitAuth /\ [][NextUsers]_vars

\* C26: once get_jwks has returned a key set, every later call, direct or
\* from a request, returns that set without asking the network and leaves
\* the cache alone; only clear_jwks_cache empties the cache, and the call
\* after it asks the network again; a fetch that fails leaves the cache
\* empty, and one that succeeds fills it with what it returns.
C26_JwksCachedUntilCleared ==
    [][/\ (jwks_cache # Null /\ last'.op \in {"get_jwks", "request"}) =>
             /\ jwks_cache' = jwks_cache
             /\ ~last'.fetched
             /\ last'.op = "get_jwks" => (~last'.raised /\ last'.returned = jwks_cache)
       /\ jwks_cache' # jwks_cache =>
             \/ jwks_cache = Null /\ last'.op \in {"get_jwks", "request"} /\ last'.fetched
             \/ jwks_cache' = Null /\ last'.op = "clear_jwks_cache"
       /\ last'.op = "clear_jwks_cache" => jwks_cache' = Null
       /\ (jwks_cache = Null /\ last'.op = "get_jwks" /\ environ.CLERK_JWKS_URL) =>
             /\ last'.fetched
             /\ ~TheValue(last'.fetch).ok => (last'.raised /\ jwks_cache' = Null)
             /\ TheValue(last'.fetch).ok =>
                   /\ ~last'.raised
                   /\ jwks_cache' = TheValue(last'.fetch).body
                   /\ last'.returned = TheValue(last'.fetch).body]_vars

\* get_jwks answered from the cache.
C26_Witness ==
    /\ last.op = "get_jwks"
    /\ ~last.fetched
    /\ ~last.raised
    /\ jwks_cache # Null
    /\ last.returned = jwks_cache

\* sub is the subject of a verified token and names an admin of the users table.
IsAdmin(rows, sub) ==
    /\ sub # Null
    /\ \E u \in rows : u.auth_provider_id = TheValue(sub) /\ u.role = "admin"

\* C24: with Clerk configured, the handler of a mutating route runs only
\* for a verified token whose user is in users with role admin; every other
\* request to it is answered 401 or 403 and leaves transactions and
\* person_mappings as they were; a read-only route calls its handler
\* exactly for the requests that carry a verified token.
C24_AdminGating ==
    [][(last'.op = "request" /\ environ.CLERK_JWKS_URL) =>
          /\ last'.route \in MutatingRoutes =>
                /\ last'.called => IsAdmin(users, last'.sub)
                /\ ~IsAdmin(users, last'.sub) =>
                      /\ last'.status \in {401, 403}
                      /\ UNCHANGED <<transactions, next_id, person_mappings,
                                     next_mapping_id>>
          /\ last'.route \in RequireAuthRoutes => (last'.called <=> last'.sub # Null)]_vars

\* C28 as stated: in every step a user that appears was created by the
\* webhook with role viewer, no auth id has two users, a user.created for an
\* auth id already in users leaves users as it was, a user of users changes
\* only through PATCH /api/users/<auth_id>/role asked by a caller who is an
\* admin of users, and users without an admin stay without one.
C28_NoRoleEscalation ==
    [][
          /\ \A u \in users' :
                GetUserByAuthId(users, u.auth_provider_id) = {} =>
                   (u.role = "viewer" /\ last'.op = "clerk_webhook")
          /\ \A u \in users' : GetUserByAuthId(users', u.auth_provider_id) = {u}
          /\ \A payload \in WebhookPayloads :
                (/\ ClerkWebhook(payload)
                 /\ payload # Null
                 /\ TheValue(payload).type = "user.created"
                 /\ TheValue(payload).data["id"] # Null
                 /\ GetUserByAuthId(users, TheValue(TheValue(payload).data["id"])) # {})
                    => users' = users
          /\ \A u \in users :
                GetUserByAuthId(users', u.auth_provider_id) # {u} =>
                   /\ last'.op = "request"
                   /\ last'.route = "PATCH /api/users/<auth_id>/role"
                   /\ IsAdmin(users, last'.sub)
          /\ (\A u \in users : u.role # "admin") => (\A u \in users' : u.role # "admin")
      ]_vars

\* C28 amended: the same, in every process in which the decorators check
\* the token (CLERK_JWKS_URL is set or FLASK_DEBUG is not true).
C28_NoRoleEscalationWhenAuthChecked ==
    [][~DevMode(environ) =>
             /\ \A u \in users' :
                   GetUserByAuthId(users, u.auth_provider_id) = {} =>
                      (u.role = "viewer" /\ last'.op = "clerk_webhook")
             /\ \A u \in users' : GetUserByAuthId(users', u.auth_provider_id) = {u}
             /\ \A payload \in WebhookPayloads :
                   (/\ ClerkWebhook(payload)
                    /\ payload # Null
                    /\ TheValue(payload).type = "user.created"
                    /\ TheValue(payload).data["id"] # Null
                    /\ GetUserByAuthId(users, TheValue(TheValue(payload).data["id"])) # {})
                       => users' = users
             /\ \A u \in users :
                   GetUserByAuthId(users', u.auth_provider_id) # {u} =>
                      /\ last'.op = "request"
                      /\ last'.route = "PATCH /api/users/<auth_id>/role"
                      /\ IsAdmin(users, last'.sub)
             /\ (\A u \in users : u.role # "admin") => (\A u \in users' : u.role # "admin")
      ]_vars

\* An admin made a user created as viewer an admin, with the token checked.
C28_Witness ==
    /\ ~DevMode(environ)
    /\ last.op = "request"
    /\ last.route = "PATCH /api/users/<auth_id>/role"
    /\ last.called
    /\ last.status = 200
    /\ last.sub = Some("u1")
    /\ \E u \in users : u.auth_provider_id = "u2" /\ u.role = "admin"

\* The by_person entries of person n in the listing f.
EntriesOf(f, n) == {i \in 1..Len(f) : f[i].person_name = n}

\* C30: over one store, mapping set and date range, the count that
\* get_contribution_statistics reports for P in by_person is the number of
\* rows of get_contributions(person_name = P), and P has an entry in
\* by_person exactly when that result is not empty.  Each call is
\* compared with what the other returns on the same store and range.
C30_ViewsAgreeOnCounts ==
    /\ (last.op = "get_contributions" /\ last.person_name # Null) =>
          \A by_person \in ByPersonOrders(ByPerson(Join(transactions, person_mappings,
                                                       last.start_date, last.end_date,
                                                       Null))) :
             /\ EntriesOf(by_person, TheValue(last.person_name)) # {} <=> Len(last.rows) > 0
             /\ \A i \in EntriesOf(by_person, TheValue(last.person_name)) :
                   by_person[i].count = Len(last.rows)
    /\ last.op = "get_contribution_statistics" =>
          \A n \in AttrPersons :
          \A rows \in ContributionOrders(backend,
                         ContributionRows(Join(transactions, person_mappings,
                                               last.start_date, last.end_date, Some(n)))) :
             /\ EntriesOf(last.by_person, n) # {} <=> Len(rows) > 0
             /\ \A i \in EntriesOf(last.by_person, n) : last.by_person[i].count = Len(rows)

\* The statistics count a person whose keywords match several deposits,
\* one of them through more than one keyword.
C30_Witness ==
    /\ last.op = "get_contribution_statistics"
    /\ \E i \in 1..Len(last.by_person) :
          /\ last.by_person[i].count >= 2
          /\ Cardinality({jm \in Join(transactions, person_mappings, last.start_date,
                                      last.end_date, Null) :
                             jm[2].person_name = last.by_person[i].person_name})
                > last.by_person[i].count

\* The sum of one column over the rows of monthly_breakdown.
RECURSIVE SumMonths(_, _)
SumMonths(f, column) ==
    IF f = <<>> THEN 0 ELSE TheValue(Head(f)[column]) + SumMonths(Tail(f), column)

\* C27: whatever the store holds and whatever the range, get_statistics
\* returns numbers with net_change = total_deposits + total_withdrawals and
\* total_withdrawals <= 0 <= total_deposits; the deposits, withdrawals and
\* net of monthly_breakdown add up to these totals; every transaction of
\* the range falls in exactly one month group.
C27_StatisticsConsistent ==
    last.op = "get_statistics" =>
        /\ last.stats.total_deposits # Null
        /\ last.stats.total_withdrawals # Null
        /\ last.stats.net_change # Null
        /\ TheValue(last.stats.net_change)
              = TheValue(last.stats.total_deposits) + TheValue(last.stats.total_withdrawals)
        /\ TheValue(last.stats.total_withdrawals) <= 0
        /\ TheValue(last.stats.total_deposits) >= 0
        /\ SumMonths(last.monthly_breakdown, "deposits") = TheValue(last.stats.total_deposits)
        /\ SumMonths(last.monthly_breakdown, "withdrawals")
              = TheValue(last.stats.total_withdrawals)
        /\ SumMonths(last.monthly_breakdown, "net") = TheValue(last.stats.net_change)
        /\ \A t \in transactions :
              InRange(t, last.start_date, last.end_date) =>
                 Cardinality({i \in 1..Len(last.monthly_breakdown) :
                                 last.monthly_breakdown[i].month = Month(t.transaction_date)})
                    = 1

(***************************************************************************)
(* projections.py: the arithmetic of Python's float (IEEE 754 binary64,    *)
(* round to nearest, ties to even)                                         *)
(***************************************************************************)
\* Naturals beyond the integers of the checker: the digits in base Radix,
\* least significant first, the last one not 0; <<>> is 0.
Radix == 32768
RadixBits == 15

\* The bits of the significand of a binary64.
Precision == 53

RECURSIVE StripZeros(_)
StripZeros(a) ==
    IF a = <<>> THEN a
    ELSE IF a[Len(a)] # 0 THEN a ELSE StripZeros(SubSeq(a, 1, Len(a) - 1))

DigitAt(a, i) == IF i <= Len(a) THEN a[i] ELSE 0

Larger(m, n) == IF m >= n THEN m ELSE n

RECURSIVE CarryInto(_, _, _)
CarryInto(a, b, i) ==
    IF i = 1 THEN 0
    ELSE (DigitAt(a, i - 1) + DigitAt(b, i - 1) + CarryInto(a, b, i - 1)) \div Radix

\* a + b
Plus(a, b) ==
    CHOOSE r \in
        {StripZeros([i \in 1..(Larger(Len(x), Len(y)) + 1) |->
                   (DigitAt(x, i) + DigitAt(y, i) + CarryInto(x, y, i)) % Radix]) :
            x \in {a}, y \in {b}} : TRUE

RECURSIVE BorrowInto(_, _, _)
BorrowInto(a, b, i) ==
    IF i = 1 THEN 0
    ELSE IF a[i - 1] - DigitAt(b, i - 1) - BorrowInto(a, b, i - 1) < 0 THEN 1 ELSE 0

\* a - b, for a >= b
Minus(a, b) ==
    CHOOSE r \in
        {StripZeros([i \in 1..Len(x) |->
                   (x[i] - DigitAt(y, i) - BorrowInto(x, y, i) + Radix) % Radix]) :
            x \in {a}, y \in {b}} : TRUE

\* a < b
Less(a, b) ==
    \E x \in {a}, y \in {b} :
        IF Len(x) # Len(y) THEN Len(x) < Len(y)
        ELSE \E i \in 1..Len(x) :
                /\ x[i] < y[i]
                /\ \A j \in (i + 1)..Len(x) : x[j] = y[j]

RECURSIVE CarryOfTimes(_, _, _)
CarryOfTimes(a, k, i) ==
    IF i = 1 THEN 0 ELSE (a[i - 1] * k + CarryOfTimes(a, k, i - 1)) \div Radix

\* a * k, for k <= Radix
TimesDigit(a, k) ==
    CHOOSE r \in
        {StripZeros([i \in 1..(Len(x) + 1) |->
                   (DigitAt(x, i) * n + CarryOfTimes(x, n, i)) % Radix]) :
            x \in {a}, n \in {k}} : TRUE

\* a * Radix^n
ShiftDigits(a, n) ==
    CHOOSE r \in {IF x = <<>> THEN x ELSE [i \in 1..n |-> 0] \o x : x \in {a}} : TRUE

RECURSIVE TimesFrom(_, _, _)
TimesFrom(a, b, j) ==
    IF j > Len(b) THEN <<>>
    ELSE Plus(ShiftDigits(TimesDigit(a, b[j]), j - 1), TimesFrom(a, b, j + 1))

\* a * b
Times(a, b) == CHOOSE r \in {TimesFrom(x, y, 1) : x \in {a}, y \in {b}} : TRUE

\* a * 2^n
ShiftLeft(a, n) == ShiftDigits(TimesDigit(a, 2 ^ (n % RadixBits)), n \div RadixBits)

RECURSIVE RemainderInto(_, _, _)
RemainderInto(a, k, i) ==
    IF i = Len(a) THEN 0 ELSE (RemainderInto(a, k, i + 1) * Radix + a[i + 1]) % k

\* a \div k, for 0 < k < Radix
DivDigit(a, k) ==
    CHOOSE r \in
        {StripZeros([i \in 1..Len(x) |-> (RemainderInto(x, n, i) * Radix + x[i]) \div n]) :
            x \in {a}, n \in {k}} : TRUE

\* a \div 2^n
ShiftRight(a, n) ==
    CHOOSE r \in
        {DivDigit(SubSeq(x, (n \div RadixBits) + 1, Len(x)), 2 ^ (n % RadixBits)) :
            x \in {a}} : TRUE

\* The number of bits of a: 0 for 0.
BitLength(a) ==
    CHOOSE r \in
        {IF x = <<>> THEN 0
         ELSE RadixBits * (Len(x) - 1)
                 + (CHOOSE k \in 1..RadixBits : 2 ^ (k - 1) <= x[Len(x)] /\ x[Len(x)] < 2 ^ k) :
            x \in {a}} : TRUE

\* Bit i of a, bit 1 the least significant.
BitAt(a, i) == (DigitAt(a, ((i - 1) \div RadixBits) + 1) \div 2 ^ ((i - 1) % RadixBits)) % 2

\* The number of 0 bits below the lowest 1 bit of a, for a > 0.
TrailingZeros(a) ==
    CHOOSE r \in
        {CHOOSE n \in 0..(RadixBits * Len(x)) :
            /\ BitAt(x, n + 1) = 1
            /\ \A j \in 1..n : BitAt(x, j) = 0 : x \in {a}} : TRUE

\* One step of the division by b: the remainder so far doubled takes the
\* bit in, and gives b back if it holds it.
DivisionStep(b, st, bit) ==
    CHOOSE r \in
        {IF Less(rem, b)
         THEN [rem |-> rem, quo |-> TimesDigit(st.quo, 2)]
         ELSE [rem |-> Minus(rem, b), quo |-> Plus(TimesDigit(st.quo, 2), <<1>>)] :
            rem \in {Plus(TimesDigit(st.rem, 2), IF bit = 1 THEN <<1>> ELSE <<>>)}} :
        TRUE

\* The steps for bits j, j - 1, ..., 1 of one digit.
RECURSIVE DivideDigit(_, _, _, _)
DivideDigit(b, st, digit, j) ==
    IF j = 0 THEN st
    ELSE CHOOSE r \in
            {DivideDigit(b, next, digit, j - 1) :
                next \in {DivisionStep(b, st, (digit \div 2 ^ (j - 1)) % 2)}} : TRUE

\* The steps for digits i, i - 1, ..., 1 of a.
RECURSIVE LongDivision(_, _, _, _)
LongDivision(a, b, i, st) ==
    IF i = 0 THEN st
    ELSE CHOOSE r \in
            {LongDivision(a, b, i - 1, next) :
                next \in {DivideDigit(b, st, a[i], RadixBits)}} : TRUE

\* quo = a \div b and rem = a % b, for b > 0
DivMod(a, b) ==
    CHOOSE r \in
        {LongDivision(x, y, Len(x), [rem |-> <<>>, quo |-> <<>>]) :
            x \in {a}, y \in {b}} : TRUE

\* The digits of the integer n >= 0.
RECURSIVE Digitize(_)
Digitize(n) == IF n = 0 THEN <<>> ELSE <<n % Radix>> \o Digitize(n \div Radix)

\* The integer that the digits a stand for.
RECURSIVE Undigitize(_)
Undigitize(a) == IF a = <<>> THEN 0 ELSE Head(a) + Radix * Undigitize(Tail(a))

\* A float is (-1)^sign * mant * 2^exp, mant odd or 0 (then sign and exp
\* are 0), so that two floats are equal exactly when their records are.
\* Every number the projector meets is far from the largest and the
\* smallest binary64: no overflow, no subnormal.
Zero == [sign |-> 0, mant |-> <<>>, exp |-> 0]

\* The float (-1)^s * m * 2^exp for 0 < m < 2^Precision.
Canonical(s, m, exp) ==
    CHOOSE f \in {[sign |-> s, mant |-> ShiftRight(m, z), exp |-> exp + z] :
                     z \in {TrailingZeros(m)}} : TRUE

\* m / 2^d to the nearest integer, a tie to the even one.
NearestEven(m, d) ==
    CHOOSE r \in
        {CHOOSE u \in
            {IF Less(half, rem) THEN Plus(q, <<1>>)
             ELSE IF Less(rem, half) THEN q
             ELSE IF BitAt(q, 1) = 1 THEN Plus(q, <<1>>) ELSE q :
                rem \in {Minus(m, ShiftLeft(q, d))},
                half \in {ShiftLeft(<<1>>, d - 1)}} : TRUE :
            q \in {ShiftRight(m, d)}} : TRUE

\* The float of sign s nearest to mant * 2^exp, ties to the even significand.
Rounded(s, mant, exp) ==
    CHOOSE r \in
        {IF m = <<>> THEN Zero
         ELSE IF BitLength(m) <= Precision THEN Canonical(s, m, exp)
         ELSE Canonical(s, NearestEven(m, BitLength(m) - Precision),
                        exp + BitLength(m) - Precision) :
            m \in {mant}} : TRUE

\* float(n) for an int n
FromInt(n) == Rounded(IF n < 0 THEN 1 ELSE 0, Digitize(IF n < 0 THEN 0 - n ELSE n), 0)

IsNegative(x) == x.sign = 1
IsPositive(x) == x.sign = 0 /\ x.mant # <<>>

\* -x and abs(x)
Negated(x) == IF x = Zero THEN x ELSE [x EXCEPT !.sign = 1 - x.sign]
FAbs(x) == [x EXCEPT !.sign = 0]

Smaller(m, n) == IF m <= n THEN m ELSE n

\* x + y
FAdd(x, y) ==
    IF x = Zero THEN y
    ELSE IF y = Zero THEN x
    ELSE CHOOSE r \in
            {IF x.sign = y.sign THEN Rounded(x.sign, Plus(a, b), e)
             ELSE IF Less(a, b) THEN Rounded(y.sign, Minus(b, a), e)
             ELSE Rounded(x.sign, Minus(a, b), e) :
                a \in {ShiftLeft(x.mant, x.exp - Smaller(x.exp, y.exp))},
                b \in {ShiftLeft(y.mant, y.exp - Smaller(x.exp, y.exp))},
                e \in {Smaller(x.exp, y.exp)}} : TRUE

\* x - y
FSub(x, y) == FAdd(x, Negated(y))

\* x * y
FMul(x, y) ==
    IF x = Zero \/ y = Zero THEN Zero
    ELSE Rounded((x.sign + y.sign) % 2, Times(x.mant, y.mant), x.exp + y.exp)

\* x / y, for y # 0: the quotient to Precision + 2 bits or more, and one
\* more bit that tells whether anything is left below them.
FDiv(x, y) ==
    IF x = Zero THEN Zero
    ELSE CHOOSE r \in
            {CHOOSE f \in
                {Rounded((x.sign + y.sign) % 2,
                         Plus(TimesDigit(dm.quo, 2), IF dm.rem = <<>> THEN <<>> ELSE <<1>>),
                         x.exp - y.exp - k - 1) :
                    dm \in {DivMod(ShiftLeft(x.mant, k), y.mant)}} : TRUE :
                k \in {Precision + 2 + BitLength(y.mant)}} : TRUE

\* int(x): the integer part, towards 0
Truncated(x) ==
    CHOOSE r \in
        {IF x.sign = 1 THEN 0 - n ELSE n :
            n \in {Undigitize(IF x.exp >= 0 THEN ShiftLeft(x.mant, x.exp)
                              ELSE ShiftRight(x.mant, 0 - x.exp))}} : TRUE

\* x < y
FLess(x, y) == IsNegative(FSub(x, y))

(***************************************************************************)
(* projections.py: calculate_projections                                   *)
(***************************************************************************)
MaxMonths == 3       \* most months a projection is asked for
MaxTemplates == 2    \* most templates in one list
MaxTicks == 1        \* months the clock moves on

\* float(v) for a number or a text written with two decimals, given in
\* hundredths: the binary64 nearest to cents / 100.
ToFloat(cents) == FDiv(FromInt(cents), FromInt(100))

\* frequency_map.get(frequency, 1)
OccurrencesPerMonth(frequency) ==
    CASE frequency = <<"w", "e", "e", "k", "l", "y">> -> FDiv(FromInt(52), FromInt(12))
      [] frequency = <<"b", "i", "w", "e", "e", "k", "l", "y">> -> FDiv(FromInt(26), FromInt(12))
      [] frequency = <<"m", "o", "n", "t", "h", "l", "y">> -> FromInt(1)
      [] frequency = <<"q", "u", "a", "r", "t", "e", "r", "l", "y">> -> FDiv(FromInt(1), FromInt(3))
      [] frequency = <<"y", "e", "a", "r", "l", "y">> -> FDiv(FromInt(1), FromInt(12))
      [] OTHER -> FromInt(1)

\* float(template.get('amount', 0))
AmountOfTemplate(template) ==
    IF "amount" \in DOMAIN template THEN ToFloat(template["amount"]) ELSE FromInt(0)

\* template.get('frequency', 'monthly').lower()
FrequencyOfTemplate(template) ==
    IF "frequency" \in DOMAIN template THEN LowerText(template["frequency"]) ELSE <<"m", "o", "n", "t", "h", "l", "y">>

\* amount * occurrences_per_month, of abs(amount) for a withdrawal
MonthlyAmount(template, withdrawal) ==
    CHOOSE r \in
        {FMul(IF withdrawal THEN FAbs(amount) ELSE amount, OccurrencesPerMonth(frequency)) :
            amount \in {AmountOfTemplate(template)},
            frequency \in {FrequencyOfTemplate(template)}} : TRUE

\* The loop over recurring_deposits, or over recurring_withdrawals: total
\* is the sum before template i.
RECURSIVE MonthlyTotal(_, _, _, _)
MonthlyTotal(templates, withdrawal, i, total) ==
    IF i > Len(templates) THEN total
    ELSE CHOOSE r \in
            {MonthlyTotal(templates, withdrawal, i + 1, next) :
                next \in {FAdd(total, MonthlyAmount(templates[i], withdrawal))}} : TRUE

\* current_date + relativedelta(months=i), its year and month
AddMonths(date, i) ==
    [year |-> date.year + ((date.month - 1 + i) \div 12),
     month |-> ((date.month - 1 + i) % 12) + 1]

\* The decimal digits of n, at least width of them.
RECURSIVE Decimal(_, _)
Decimal(n, width) ==
    IF n < 10 /\ width <= 1 THEN <<Digits[n + 1]>>
    ELSE Decimal(n \div 10, width - 1) \o <<Digits[(n % 10) + 1]>>

\* strftime('%Y-%m')
YearMonth(date) == Decimal(date.year, 4) \o <<"-">> \o Decimal(date.month, 2)

MonthNames ==
    <<<<"J", "a", "n", "u", "a", "r", "y">>,
      <<"F", "e", "b", "r", "u", "a", "r", "y">>,
      <<"M", "a", "r", "c", "h">>,
      <<"A", "p", "r", "i", "l">>,
      <<"M", "a", "y">>,
      <<"J", "u", "n", "e">>,
      <<"J", "u", "l", "y">>,
      <<"A", "u", "g", "u", "s", "t">>,
      <<"S", "e", "p", "t", "e", "m", "b", "e", "r">>,
      <<"O", "c", "t", "o", "b", "e", "r">>,
      <<"N", "o", "v", "e", "m", "b", "e", "r">>,
      <<"D", "e", "c", "e", "m", "b", "e", "r">>>>

\* strftime('%B %Y')
MonthName(date) == MonthNames[date.month] \o <<" ">> \o Decimal(date.year, 4)

\* One pass of the loop: the entry of month i.
Projection(current_date, i, monthly_deposits, monthly_withdrawals, monthly_net, balance) ==
    [month |-> YearMonth(AddMonths(current_date, i)),
     month_name |-> MonthName(AddMonths(current_date, i)),
     deposits |-> IF i > 0 THEN monthly_deposits ELSE Zero,
     withdrawals |-> IF i > 0 THEN monthly_withdrawals ELSE Zero,
     net_change |-> IF i > 0 THEN monthly_net ELSE Zero,
     projected_balance |-> balance]

\* A loop that adds monthly_net after the last entry as well.
RECURSIVE ProjectionLoopAddsAfterLast(_, _, _, _, _, _, _, _)
ProjectionLoopAddsAfterLast(current_date, months, monthly_deposits, monthly_withdrawals, monthly_net, i, balance, projections) ==
    IF i > months THEN [projections |-> projections, balance |-> balance]
    ELSE CHOOSE r \in
            {ProjectionLoopAddsAfterLast(current_date, months, monthly_deposits,
                                         monthly_withdrawals, monthly_net, i + 1, b, p) :
                b \in {FAdd(balance, monthly_net)},
                p \in {Append(projections,
                              Projection(current_date, i, monthly_deposits,
                                         monthly_withdrawals, monthly_net, balance))}} : TRUE

\* for i in range(months + 1): the entries appended so far and the balance
RECURSIVE ProjectionLoop(_, _, _, _, _, _, _, _)
ProjectionLoop(current_date, months, monthly_deposits, monthly_withdrawals, monthly_net, i, balance, projections) ==
    IF i > months THEN [projections |-> projections, balance |-> balance]
    ELSE CHOOSE r \in
            {ProjectionLoop(current_date, months, monthly_deposits, monthly_withdrawals,
                            monthly_net, i + 1, b, p) :
                b \in {IF i < months THEN FAdd(balance, monthly_net) ELSE balance},
                p \in {Append(projections,
                              Projection(current_date, i, monthly_deposits,
                                         monthly_withdrawals, monthly_net, balance))}} : TRUE

\* trend
Trend(monthly_net) ==
    IF IsPositive(monthly_net) THEN "positive"
    ELSE IF IsNegative(monthly_net) THEN "negative" ELSE "neutral"

\* A months_until_zero that rounds the quotient to the nearest integer.
MonthsUntilZeroRounds(current_balance, monthly_net) ==
    IF IsNegative(monthly_net) /\ IsPositive(current_balance)
    THEN Some(Truncated(FAdd(FDiv(current_balance, FAbs(monthly_net)),
                             FDiv(FromInt(1), FromInt(2)))))
    ELSE Null

\* months_until_zero
MonthsUntilZero(current_balance, monthly_net) ==
    IF IsNegative(monthly_net) /\ IsPositive(current_balance)
    THEN Some(Truncated(FDiv(current_balance, FAbs(monthly_net))))
    ELSE Null

\* The summary, given the balance the loop ended with.
Summary(current_balance, months, monthly_deposits, monthly_withdrawals, monthly_net, final_balance) ==
    [current_balance |-> current_balance,
     final_balance |-> final_balance,
     total_change |-> FSub(final_balance, current_balance),
     total_deposits |-> FMul(monthly_deposits, FromInt(months)),
     total_withdrawals |-> FMul(monthly_withdrawals, FromInt(months)),
     monthly_net |-> monthly_net,
     trend |-> Trend(monthly_net),
     months_until_zero |-> MonthsUntilZero(current_balance, monthly_net)]

\* calculate_projections called when datetime.now() gives current_date
Projections(current_date, current_balance, months, recurring_deposits, recurring_withdrawals) ==
    CHOOSE r \in
        {CHOOSE q \in
            {CHOOSE p \in
                {[projections |-> loop.projections,
                  summary |-> Summary(current_balance, months, monthly_deposits,
                                      monthly_withdrawals, monthly_net, loop.balance),
                  recurring_deposits |-> recurring_deposits,
                  recurring_withdrawals |-> recurring_withdrawals] :
                    loop \in {ProjectionLoop(current_date, months, monthly_deposits,
                                             monthly_withdrawals, monthly_net, 0,
                                             current_balance, <<>>)}} : TRUE :
                monthly_net \in {FSub(monthly_deposits, monthly_withdrawals)}} : TRUE :
            monthly_deposits \in {MonthlyTotal(recurring_deposits, FALSE, 1, Zero)},
            monthly_withdrawals \in {MonthlyTotal(recurring_withdrawals, TRUE, 1, Zero)}} :
        TRUE

\* The call waiting in last is served now.
CalculateProjections ==
    /\ last.op \in {"pending", "calculate_projections"}
    /\ \E result \in {Projections(now, ToFloat(last.args.current_balance), last.args.months,
                                  last.args.recurring_deposits,
                                  last.args.recurring_withdrawals)} :
          last' = [op |-> "calculate_projections", args |-> last.args, at |-> now,
                   result |-> result]
    /\ UNCHANGED <<backend, transactions, next_id, person_mappings, next_mapping_id, conn,
                   users, jwks_cache, now, environ>>

\* A month passes.
Tick ==
    /\ (now.year - 2024) * 12 + now.month - 11 < MaxTicks
    /\ now' = AddMonths(now, 1)
    /\ UNCHANGED <<backend, transactions, next_id, person_mappings, next_mapping_id, conn,
                   users, jwks_cache, environ, last>>

\* The sequences that keep some elements of pool, in the order of pool.
Selections(pool) ==
    {[i \in 1..Cardinality(S) |->
         pool[CHOOSE j \in S : Cardinality({k \in S : k < j}) = i - 1]] :
        S \in SUBSET (1..Len(pool))}

\* Templates as the request body gives them: amount in hundredths, the
\* frequency as written; either may be missing.
DepositTemplates ==
    <<[amount |-> 50000, frequency |-> <<"m", "o", "n", "t", "h", "l", "y">>],
      [amount |-> 1200, frequency |-> <<"W", "e", "e", "k", "l", "y">>]>>

WithdrawalTemplates ==
    <<[amount |-> 70000, frequency |-> <<"m", "o", "n", "t", "h", "l", "y">>],
      [amount |-> 39],
      [amount |-> -1, frequency |-> <<"m", "o", "n", "t", "h", "l", "y">>]>>

BalanceInputs == {100000, 117, 3, 0}

ProjectionInputs ==
    {[current_balance |-> b, months |-> n, recurring_deposits |-> d,
      recurring_withdrawals |-> w] :
        b \in BalanceInputs, n \in 0..MaxMonths,
        d \in {x \in Selections(DepositTemplates) : Len(x) <= MaxTemplates},
        w \in {x \in Selections(WithdrawalTemplates) : Len(x) <= MaxTemplates}}

InitProjections ==
    /\ Started
    /\ backend = "pg"
    /\ transactions = {}
    /\ next_id = 1
    /\ person_mappings = {}
    /\ next_mapping_id = 1
    /\ conn = <<>>
    /\ \E args \in ProjectionInputs : last = [op |-> "pending", args |-> args]

NextProjections ==
    \/ CalculateProjections
    \/ Tick

SpecProjections == InitProjections /\ [][NextProjections]_vars

\* The spec's example: balance 1000, two months, a monthly deposit of 500
\* and a monthly withdrawal of 700.
ExampleCall ==
    [current_balance |-> 100000, months |-> 2,
     recurring_deposits |-> <<[amount |-> 50000, frequency |-> <<"m", "o", "n", "t", "h", "l", "y">>]>>,
     recurring_withdrawals |-> <<[amount |-> 70000, frequency |-> <<"m", "o", "n", "t", "h", "l", "y">>]>>]

\* The projected balances of the entries, in order.
Balances(projections) ==
    [i \in 1..Len(projections) |-> projections[i].projected_balance]

\* C21 as stated: months + 1 entries; entry 0 has deposits, withdrawals and
\* net_change 0 and the current balance; entry i >= 1 has net_change =
\* monthly_net and projected_balance = current_balance + i * monthly_net;
\* final_balance is the projected_balance of the last entry; the example
\* gives 1000, 800, 600.
C21_TrajectoryClosedForm ==
    last.op = "calculate_projections" =>
        LET r == last.result
            n == last.args.months
        IN /\ Len(r.projections) = n + 1
           /\ r.projections[1].deposits = Zero
           /\ r.projections[1].withdrawals = Zero
           /\ r.projections[1].net_change = Zero
           /\ r.projections[1].projected_balance = ToFloat(last.args.current_balance)
           /\ \A i \in 1..n :
                 /\ r.projections[i + 1].net_change = r.summary.monthly_net
                 /\ r.projections[i + 1].projected_balance
                       = FAdd(ToFloat(last.args.current_balance),
                              FMul(FromInt(i), r.summary.monthly_net))
           /\ r.summary.final_balance = r.projections[n + 1].projected_balance
           /\ last.args = ExampleCall =>
                 Balances(r.projections) = <<FromInt(1000), FromInt(800), FromInt(600)>>

\* C21 amended: the same, with the projected_balance of entry i >= 1 being
\* that of entry i - 1 plus monthly_net, each sum rounded as the float
\* addition rounds it.
C21_TrajectoryAccrues ==
    last.op = "calculate_projections" =>
        LET r == last.result
            n == last.args.months
        IN /\ Len(r.projections) = n + 1
           /\ r.projections[1].deposits = Zero
           /\ r.projections[1].withdrawals = Zero
           /\ r.projections[1].net_change = Zero
           /\ r.projections[1].projected_balance = ToFloat(last.args.current_balance)
           /\ \A i \in 1..n :
                 /\ r.projections[i + 1].net_change = r.summary.monthly_net
                 /\ r.projections[i + 1].projected_balance
                       = FAdd(r.projections[i].projected_balance, r.summary.monthly_net)
           /\ r.summary.final_balance = r.projections[n + 1].projected_balance
           /\ last.args = ExampleCall =>
                 Balances(r.projections) = <<FromInt(1000), FromInt(800), FromInt(600)>>

\* The example has been projected: 1000, 800, 600 with monthly_net -200.
C21_Witness ==
    /\ last.op = "calculate_projections"
    /\ last.args = ExampleCall
    /\ last.result.summary.monthly_net = FromInt(-200)
    /\ Balances(last.result.projections) = <<FromInt(1000), FromInt(800), FromInt(600)>>
    /\ last.result.summary.final_balance = FromInt(600)

\* The largest integer that is not above the float q >= 0, if k is it.
IsFloorOf(k, q) == ~FLess(q, FromInt(k)) /\ FLess(q, FromInt(k + 1))

C23_ProjectorPure ==
    [][(/\ last.op = "calculate_projections"
        /\ last'.op = "calculate_projections"
        /\ last'.args = last.args) => last'.result = last.result]_vars

\* C29: when months_until_zero is a number k, current_balance + k *
\* monthly_net >= 0 and current_balance + (k + 1) * monthly_net < 0, and
\* for k + 1 <= months the entry at index k is not negative and the entry
\* at index k + 1 is.
C29_MonthsUntilZeroAgrees ==
    (last.op = "calculate_projections" /\ last.result.summary.months_until_zero # Null) =>
        LET r == last.result
            k == TheValue(r.summary.months_until_zero)
            current_balance == ToFloat(last.args.current_balance)
        IN /\ ~IsNegative(FAdd(current_balance, FMul(FromInt(k), r.summary.monthly_net)))
           /\ IsNegative(FAdd(current_balance, FMul(FromInt(k + 1), r.summary.monthly_net)))
           /\ k + 1 <= last.args.months =>
                 /\ ~IsNegative(r.projections[k + 1].projected_balance)
                 /\ IsNegative(r.projections[k + 2].projected_balance)

====
